---------------------------- MODULE Spec2Model ----------------------------
(***************************************************************************)
(* TAD.RV kernel enforcement engine (src/Kernel/TAD_RV.c).                 *)
(*                                                                         *)
(* The state is the driver's global block g_Tad; every dispatch routine    *)
(* and every kernel callback is one action.  Pointers and handles are      *)
(* small integers with 0 for NULL, status codes are strings, WCHAR strings *)
(* are sequences of UTF-16 code units, byte buffers are sequences of       *)
(* 0..255.  The variable "last" records the request that was served last   *)
(* together with what the routine returned for it.                         *)
(***************************************************************************)
EXTENDS Integers, Sequences, FiniteSets, TLC

(***************************************************************************)
(* Bounds of the model.                                                    *)
(***************************************************************************)
\* process ids 1..MaxPid name live processes; MaxPid + 1 names no process
MaxPid == 3
\* the clock advances MaxTicks times at most
MaxTicks == 4
\* clock steps per lockout window
TicksPerWindow == 2

(***************************************************************************)
(* Program constants.                                                      *)
(***************************************************************************)
TAD_AUTH_KEY_SIZE == 32
TAD_KEY_XOR_MASK == 167
TAD_MAX_UNLOCK_ATTEMPTS == 5
\* (LONGLONG)(-30LL * 10 * 1000 * 1000), relative time in 100 ns units
TAD_LOCKOUT_DURATION == -300000000
TAD_MAX_BANNED_APPS == 32
TAD_MAX_IMAGE_NAME_LEN == 64
TadRoleUnknown == 255
TAD_POLICY_FLAG_BLOCK_USB == 1
TAD_POLICY_FLAG_BLOCK_APPS == 16
\* sizeof of the payload structures of TadShared.h (pack 8, 4-byte members)
SizeofProtectPidInput == 8
SizeofUnlockInput == 32
SizeofPolicyBuffer == 564
SizeofProtectUiInput == 8
SizeofBannedAppsInput == 4100

TadObfuscatedKey ==
    << 243, 230, 227, 138, 245, 241, 137, 244,
       226, 228, 242, 245, 238, 243, 242, 236,
       226, 254, 151, 150, 149, 148, 147, 146,
       234, 232, 233, 238, 243, 232, 233, 134 >>

NULL == 0

(***************************************************************************)
(* C operators on unsigned integers.                                       *)
(***************************************************************************)
RECURSIVE BitXor(_, _)
BitXor(a, b) ==
    IF a = b THEN 0
    ELSE IF a = 0 THEN b
    ELSE IF b = 0 THEN a
    ELSE (IF (a % 2) = (b % 2) THEN 0 ELSE 1) + (2 * BitXor(a \div 2, b \div 2))

RECURSIVE BitOr(_, _)
BitOr(a, b) ==
    IF a = b THEN a
    ELSE IF a = 0 THEN b
    ELSE IF b = 0 THEN a
    ELSE (IF (a % 2) = 1 \/ (b % 2) = 1 THEN 1 ELSE 0) + (2 * BitOr(a \div 2, b \div 2))

RECURSIVE BitAnd(_, _)
BitAnd(a, b) ==
    IF a = 0 \/ b = 0 THEN 0
    ELSE (IF (a % 2) = 1 /\ (b % 2) = 1 THEN 1 ELSE 0) + (2 * BitAnd(a \div 2, b \div 2))

\* a & ~b
BitAndNot(a, b) == a - BitAnd(a, b)

(***************************************************************************)
(* TadVerifyAuthKey: de-obfuscate, then OR-accumulate the XOR difference   *)
(* of all TAD_AUTH_KEY_SIZE bytes; the result is (diff == 0).              *)
(***************************************************************************)
DecodedKey ==
    [i \in 1..TAD_AUTH_KEY_SIZE |-> BitXor(TadObfuscatedKey[i], TAD_KEY_XOR_MASK)]

RECURSIVE KeyDiff(_, _, _)
KeyDiff(ProvidedKey, i, diff) ==
    IF i > TAD_AUTH_KEY_SIZE THEN diff
    ELSE KeyDiff(ProvidedKey, i + 1,
                 BitOr(diff, BitXor(DecodedKey[i], ProvidedKey[i])))

\* mutant: the loop stops one byte short
TadVerifyAuthKey_ShortLoop(ProvidedKey) ==
    LET RECURSIVE D(_, _)
        D(i, diff) ==
            IF i > TAD_AUTH_KEY_SIZE - 1 THEN diff
            ELSE D(i + 1, BitOr(diff, BitXor(DecodedKey[i], ProvidedKey[i])))
    IN  D(1, 0) = 0

TadVerifyAuthKey(ProvidedKey) == KeyDiff(ProvidedKey, 1, 0) = 0

(***************************************************************************)
(* The state: g_Tad, the clock, the reference counts of the process        *)
(* objects, and the last request with its outcome.                         *)
(***************************************************************************)
VARIABLES
    DeviceObject,            \* TRUE while the control device exists
    ObCallbackHandle,        \* TRUE while the handle callbacks are registered
    FilterHandle,            \* TRUE while the minifilter is registered
    ProcessNotifyRegistered, \* TRUE while the process-notify routine is registered
    TimerActive,             \* TRUE while the heartbeat timer is set
    ProtectedPid,            \* HANDLE, 0 = NULL
    ProtectedUiPid,          \* HANDLE, 0 = NULL
    AgentProcess,            \* PEPROCESS (named by the pid of the process), 0 = NULL
    ObjRefs,                 \* references the driver holds on each process object
    AllowUnload,             \* LONG
    FailedUnlockAttempts,    \* LONG
    LockoutUntil,            \* LARGE_INTEGER
    now,                     \* the system time KeQuerySystemTime returns
    CurrentPolicy,           \* TAD_POLICY_BUFFER
    PolicyValid,             \* LONG
    BannedApps,              \* UNICODE_STRING[TAD_MAX_BANNED_APPS], indexed from 0
    BannedAppStorage,        \* the WCHAR storage behind BannedApps
    BannedAppCount,          \* ULONG
    last,                    \* the last request served and its outcome
    wrongRun,                \* history: wrong-secret Unlock requests in a row
    runLockEnd,              \* history: end of the window the 5th of them opened
    acceptedNames,           \* history: valid entries of the last accepted list
    acceptedFlagOff,         \* history: that list was accepted with block-apps off
    HeartbeatAlive,          \* LONG
    LastHeartbeatTime,       \* LARGE_INTEGER
    CurrentUserRole,         \* LONG
    InputLocked,             \* LONG
    StealthActive,           \* LONG
    StealthFlags,            \* ULONG
    BannedAppsLock,          \* FAST_MUTEX: its owner, "free" when not held
    inFlight,                \* the requests and callbacks that are part-way through
    acceptedPolicy,          \* history: << payload >> of the last accepted SetPolicy
    committedApps,           \* history: the banned list when the lock was last free
    marksSinceTick,          \* history: a Heartbeat request set Alive since the last tick
    completedSinceTick       \* history: a Heartbeat request completed since the last tick

gateVars == << AllowUnload, FailedUnlockAttempts, LockoutUntil >>
regVars == << DeviceObject, ObCallbackHandle, FilterHandle,
              ProcessNotifyRegistered, TimerActive >>
pidVars == << ProtectedPid, ProtectedUiPid, AgentProcess, ObjRefs >>
policyVars == << CurrentPolicy, PolicyValid >>
bannedVars == << BannedApps, BannedAppStorage, BannedAppCount >>
histVars == << wrongRun, runLockEnd, acceptedNames, acceptedFlagOff >>
heartbeatVars == << HeartbeatAlive, LastHeartbeatTime >>
modeVars == << CurrentUserRole, InputLocked, StealthActive, StealthFlags >>
flightVars == << BannedAppsLock, inFlight >>
moreHistVars == << acceptedPolicy, committedApps, marksSinceTick, completedSinceTick >>
\* what the requests and callbacks that run in one piece leave alone
quietVars == << heartbeatVars, modeVars, flightVars, moreHistVars >>
vars == << gateVars, regVars, pidVars, policyVars, bannedVars, now, last, histVars,
           heartbeatVars, modeVars, flightVars, moreHistVars >>

Pids == 1..MaxPid

\* the clock: one step is a fixed fraction of the lockout window
TimeStep == (-TAD_LOCKOUT_DURATION) \div TicksPerWindow
BootTime == TimeStep
MaxTime == BootTime + MaxTicks * TimeStep

ZeroPolicy ==
    [Version |-> 0, Flags |-> 0, HeartbeatIntervalMs |-> 0,
     HeartbeatTimeoutMs |-> 0, OrganizationalUnit |-> << >>, AllowedRoles |-> 0]

\* a zeroed UNICODE_STRING
ZeroString == [Length |-> 0, MaximumLength |-> 0, Buffer |-> NULL]

BannedIndex == 0..(TAD_MAX_BANNED_APPS - 1)

\* the handlers that can be part-way through: << >> when the handler is not
\* running, << its position and inputs >> otherwise
Handlers == { "SetPolicy", "SetBannedApps", "ProcessNotify", "Heartbeat", "ProtectPid",
              "KeBugCheckEx", "Dispatch", "Unlock" }
NoneInFlight == [h \in Handlers |-> << >>]

(***************************************************************************)
(* DriverEntry: g_Tad zeroed; the device is created (or loading fails and  *)
(* there is no driver); the handle-interception, file-system filter and    *)
(* process-notify registrations are made (the state in which all three     *)
(* subsystems enforce); the watchdog timer is started.                     *)
(***************************************************************************)
Init ==
    /\ DeviceObject = TRUE
    /\ ObCallbackHandle = TRUE
    /\ FilterHandle = TRUE
    /\ ProcessNotifyRegistered = TRUE
    /\ TimerActive = TRUE
    /\ ProtectedPid = NULL
    /\ ProtectedUiPid = NULL
    /\ AgentProcess = NULL
    /\ ObjRefs = [p \in Pids |-> 0]
    /\ AllowUnload = 0
    /\ FailedUnlockAttempts = 0
    /\ LockoutUntil = 0
    /\ now = BootTime
    /\ CurrentPolicy = ZeroPolicy
    /\ PolicyValid = 0
    /\ BannedApps = [i \in BannedIndex |-> ZeroString]
    /\ BannedAppStorage = [i \in BannedIndex |-> << >>]
    /\ BannedAppCount = 0
    /\ last = [op |-> "DriverEntry", status |-> "STATUS_SUCCESS"]
    /\ wrongRun = 0
    /\ runLockEnd = 0
    /\ acceptedNames = {}
    /\ acceptedFlagOff = FALSE
    /\ HeartbeatAlive = 0
    /\ LastHeartbeatTime = 0
    /\ CurrentUserRole = TadRoleUnknown
    /\ InputLocked = 0
    /\ StealthActive = 0
    /\ StealthFlags = 0
    /\ BannedAppsLock = "free"
    /\ inFlight = NoneInFlight
    /\ acceptedPolicy = << >>
    /\ committedApps = << [i \in BannedIndex |-> ZeroString],
                          [i \in BannedIndex |-> << >>], 0 >>
    /\ marksSinceTick = FALSE
    /\ completedSinceTick = FALSE


(***************************************************************************)
(* An IRP_MJ_DEVICE_CONTROL request: the lengths of the stack location and *)
(* the system buffer, << >> for a NULL buffer and << payload >> otherwise. *)
(***************************************************************************)
NULLBUF == << >>

Irp(inLen, outLen, buf) ==
    [InputBufferLength |-> inLen, OutputBufferLength |-> outLen, SystemBuffer |-> buf]

\* Irp->IoStatus and IoCompleteRequest
Complete(ioctl, caller, irp, status, bytesWritten) ==
    last' = [op |-> ioctl, caller |-> caller, irp |-> irp,
             status |-> status, Information |-> bytesWritten]

\* mutant: every caller passes for the registered process
TadIsCallerProtectedAgent_Always(caller) == TRUE

TadIsCallerProtectedAgent(caller) ==
    AgentProcess # NULL /\ caller = AgentProcess

\* the guard "g_Tad.AgentProcess && !TadIsCallerProtectedAgent()"
CallerRejected(caller) ==
    AgentProcess # NULL /\ ~TadIsCallerProtectedAgent(caller)

\* mutant: every pid resolves to a process
PsLookupSucceeds_Always(pid) == TRUE

\* PsLookupProcessByProcessId succeeds for the pid of a live process
PsLookupSucceeds(pid) == pid \in Pids

(***************************************************************************)
(* IOCTL_TAD_PROTECT_PID                                                   *)
(***************************************************************************)
IoctlProtectPid(caller, irp) ==
    LET ioctl == "IOCTL_TAD_PROTECT_PID"
        buf == irp.SystemBuffer
    IN  /\ DeviceObject
        /\ UNCHANGED << gateVars, regVars, policyVars, bannedVars, now, ProtectedUiPid >>
        /\ IF irp.InputBufferLength < SizeofProtectPidInput
           THEN /\ Complete(ioctl, caller, irp, "STATUS_BUFFER_TOO_SMALL", 0)
                /\ UNCHANGED << ProtectedPid, AgentProcess, ObjRefs >>
           ELSE IF buf = NULLBUF
           THEN /\ Complete(ioctl, caller, irp, "STATUS_INVALID_PARAMETER", 0)
                /\ UNCHANGED << ProtectedPid, AgentProcess, ObjRefs >>
           ELSE IF buf[1].TargetPid = 0 \/ buf[1].Flags # 0
           THEN /\ Complete(ioctl, caller, irp, "STATUS_INVALID_PARAMETER", 0)
                /\ UNCHANGED << ProtectedPid, AgentProcess, ObjRefs >>
           ELSE IF ~PsLookupSucceeds(buf[1].TargetPid)
           THEN /\ Complete(ioctl, caller, irp, "STATUS_INVALID_PARAMETER", 0)
                /\ UNCHANGED << ProtectedPid, AgentProcess, ObjRefs >>
           ELSE LET proc == buf[1].TargetPid
                    \* the lookup takes a reference on proc
                    looked == [ObjRefs EXCEPT ![proc] = @ + 1]
                IN  /\ ObjRefs' = IF AgentProcess # NULL
                                  THEN [looked EXCEPT ![AgentProcess] = @ - 1]
                                  ELSE looked
                    /\ AgentProcess' = proc
                    /\ ProtectedPid' = buf[1].TargetPid
                    /\ Complete(ioctl, caller, irp, "STATUS_SUCCESS", 0)

(***************************************************************************)
(* IOCTL_TAD_UNLOCK                                                        *)
(***************************************************************************)
\* mutant: ">" for ">=" in the lockout test
LockoutActive_OffByOne(failed, t, until) ==
    failed > TAD_MAX_UNLOCK_ATTEMPTS /\ t < until

\* mutant: a locked-out request is let through to the evaluation
LockoutActive_Never(failed, t, until) ==
    FALSE

\* "FailedUnlockAttempts >= TAD_MAX_UNLOCK_ATTEMPTS" and "now < LockoutUntil"
LockoutActive(failed, t, until) ==
    failed >= TAD_MAX_UNLOCK_ATTEMPTS /\ t < until

\* mutant: the negative relative duration is added as it is
NewLockoutUntil_Past(t) == t + TAD_LOCKOUT_DURATION

\* mutant: the duration is not added
NewLockoutUntil_Now(t) == t

\* KeQuerySystemTime(&LockoutUntil); LockoutUntil += (-TAD_LOCKOUT_DURATION)
NewLockoutUntil(t) == t + (-TAD_LOCKOUT_DURATION)

\* mutant: the stale count is kept when the window has elapsed
CountAfterWindow_Stale(failed) == failed

\* the count the evaluation starts from: reset to 0 when a lockout has elapsed
CountAfterWindow(failed) ==
    IF failed >= TAD_MAX_UNLOCK_ATTEMPTS THEN 0 ELSE failed

\* mutant: a failed attempt clears the unload gate
AllowUnloadOnFailure_Clear(allow) == 0

\* the failure branch does not write AllowUnload
AllowUnloadOnFailure(allow) == allow

IoctlUnlock(caller, irp) ==
    LET ioctl == "IOCTL_TAD_UNLOCK"
        buf == irp.SystemBuffer
    IN  /\ DeviceObject
        /\ UNCHANGED << regVars, pidVars, policyVars, bannedVars, now >>
        /\ IF irp.InputBufferLength < SizeofUnlockInput
           THEN /\ Complete(ioctl, caller, irp, "STATUS_BUFFER_TOO_SMALL", 0)
                /\ UNCHANGED gateVars
           ELSE IF buf = NULLBUF
           THEN /\ Complete(ioctl, caller, irp, "STATUS_INVALID_PARAMETER", 0)
                /\ UNCHANGED gateVars
           ELSE IF CallerRejected(caller)
           THEN /\ Complete(ioctl, caller, irp, "STATUS_ACCESS_DENIED", 0)
                /\ UNCHANGED gateVars
           ELSE IF LockoutActive(FailedUnlockAttempts, now, LockoutUntil)
           THEN /\ Complete(ioctl, caller, irp, "STATUS_ACCESS_DENIED", 0)
                /\ UNCHANGED gateVars
           ELSE IF TadVerifyAuthKey(buf[1].AuthKey)
           THEN /\ AllowUnload' = 1
                /\ FailedUnlockAttempts' = 0
                /\ UNCHANGED LockoutUntil
                /\ Complete(ioctl, caller, irp, "STATUS_SUCCESS", 0)
           ELSE LET a == CountAfterWindow(FailedUnlockAttempts) + 1
                IN  /\ FailedUnlockAttempts' = a
                    /\ LockoutUntil' = IF a >= TAD_MAX_UNLOCK_ATTEMPTS
                                       THEN NewLockoutUntil(now)
                                       ELSE LockoutUntil
                    /\ AllowUnload' = AllowUnloadOnFailure(AllowUnload)
                    /\ Complete(ioctl, caller, irp, "STATUS_ACCESS_DENIED", 0)

(***************************************************************************)
(* IOCTL_TAD_SET_POLICY                                                    *)
(***************************************************************************)
IoctlSetPolicy(caller, irp) ==
    LET ioctl == "IOCTL_TAD_SET_POLICY"
        buf == irp.SystemBuffer
    IN  /\ DeviceObject
        /\ UNCHANGED << gateVars, regVars, pidVars, bannedVars, now >>
        /\ IF irp.InputBufferLength < SizeofPolicyBuffer
           THEN /\ Complete(ioctl, caller, irp, "STATUS_BUFFER_TOO_SMALL", 0)
                /\ UNCHANGED policyVars
           ELSE IF buf = NULLBUF
           THEN /\ Complete(ioctl, caller, irp, "STATUS_INVALID_PARAMETER", 0)
                /\ UNCHANGED policyVars
           ELSE IF CallerRejected(caller)
           THEN /\ Complete(ioctl, caller, irp, "STATUS_ACCESS_DENIED", 0)
                /\ UNCHANGED policyVars
           ELSE IF buf[1].Version # 1
           THEN /\ Complete(ioctl, caller, irp, "STATUS_INVALID_PARAMETER", 0)
                /\ UNCHANGED policyVars
           ELSE /\ CurrentPolicy' = buf[1]
                /\ PolicyValid' = 1
                /\ Complete(ioctl, caller, irp, "STATUS_SUCCESS", 0)

(***************************************************************************)
(* TadDriverUnload and TadFilterUnloadCallback                             *)
(***************************************************************************)
\* mutant: the unload gate is not consulted
UnloadDenied_Never(allow) == FALSE

\* InterlockedCompareExchange(&g_Tad.AllowUnload, 0, 0) == 0
UnloadDenied(allow) == allow = 0

TadDriverUnload ==
    /\ DeviceObject
    /\ UNCHANGED << gateVars, policyVars, bannedVars, now, ProtectedUiPid >>
    /\ IF UnloadDenied(AllowUnload)
       THEN /\ last' = [op |-> "TadDriverUnload", status |-> "DENIED"]
            /\ UNCHANGED << regVars, ProtectedPid, AgentProcess, ObjRefs >>
       ELSE /\ TimerActive' = FALSE              \* TadStopHeartbeatWatchdog
            /\ FilterHandle' = FALSE             \* FltUnregisterFilter
            /\ ProcessNotifyRegistered' = FALSE  \* TadUnregisterProcessNotify
            /\ ObCallbackHandle' = FALSE         \* TadUnregisterProcessProtection
            /\ ProtectedPid' = NULL
            /\ ObjRefs' = IF AgentProcess # NULL
                          THEN [ObjRefs EXCEPT ![AgentProcess] = @ - 1]
                          ELSE ObjRefs
            /\ AgentProcess' = NULL
            /\ DeviceObject' = FALSE             \* TadCleanupDeviceAndSymlink
            /\ last' = [op |-> "TadDriverUnload", status |-> "UNLOADED"]

TadFilterUnloadCallback ==
    /\ FilterHandle
    /\ UNCHANGED << gateVars, regVars, pidVars, policyVars, bannedVars, now >>
    /\ last' = [op |-> "TadFilterUnloadCallback",
                status |-> IF UnloadDenied(AllowUnload)
                           THEN "STATUS_FLT_DO_NOT_DETACH"
                           ELSE "STATUS_SUCCESS"]

(***************************************************************************)
(* The system clock advances.                                              *)
(***************************************************************************)
Tick ==
    /\ now + TimeStep <= MaxTime
    /\ now' = now + TimeStep
    /\ last' = [op |-> "Tick"]
    /\ UNCHANGED << gateVars, regVars, pidVars, policyVars, bannedVars, histVars,
                    quietVars >>


(***************************************************************************)
(* IOCTL_TAD_PROTECT_UI                                                    *)
(***************************************************************************)
IoctlProtectUi(caller, irp) ==
    LET ioctl == "IOCTL_TAD_PROTECT_UI"
        buf == irp.SystemBuffer
    IN  /\ DeviceObject
        /\ UNCHANGED << gateVars, regVars, policyVars, bannedVars, now,
                        ProtectedPid, AgentProcess, ObjRefs >>
        /\ IF irp.InputBufferLength < SizeofProtectUiInput
           THEN /\ Complete(ioctl, caller, irp, "STATUS_BUFFER_TOO_SMALL", 0)
                /\ UNCHANGED ProtectedUiPid
           ELSE IF ~TadIsCallerProtectedAgent(caller)
           THEN /\ Complete(ioctl, caller, irp, "STATUS_ACCESS_DENIED", 0)
                /\ UNCHANGED ProtectedUiPid
           ELSE /\ ProtectedUiPid' = IF buf[1].Protect # 0
                                     THEN buf[1].TargetPid
                                     ELSE NULL
                /\ Complete(ioctl, caller, irp, "STATUS_SUCCESS", 0)

(***************************************************************************)
(* 8. Handle interception: TadObProcessPreCallback, TadObThreadPreCallback *)
(***************************************************************************)
\* access rights of the WDK that TAD_RV.h names
PROCESS_TERMINATE == 1
PROCESS_CREATE_THREAD == 2
PROCESS_VM_OPERATION == 8
PROCESS_VM_WRITE == 32
PROCESS_SUSPEND_RESUME == 2048
THREAD_TERMINATE == 1
THREAD_SUSPEND_RESUME == 2
THREAD_SET_CONTEXT == 16

TAD_STRIPPED_PROCESS_RIGHTS ==
    BitOr(PROCESS_TERMINATE,
    BitOr(PROCESS_VM_WRITE,
    BitOr(PROCESS_VM_OPERATION,
    BitOr(PROCESS_CREATE_THREAD, PROCESS_SUSPEND_RESUME))))

TAD_STRIPPED_THREAD_RIGHTS ==
    BitOr(THREAD_TERMINATE, BitOr(THREAD_SUSPEND_RESUME, THREAD_SET_CONTEXT))

\* mutant: only the terminate right is stripped
StripRights_TerminateOnly(DesiredAccess, stripped) ==
    BitAndNot(DesiredAccess, PROCESS_TERMINATE)

\* mutant: the mask is intersected with the stripped rights
StripRights_Keep(DesiredAccess, stripped) ==
    BitAnd(DesiredAccess, stripped)

\* DesiredAccess &= ~stripped
StripRights(DesiredAccess, stripped) == BitAndNot(DesiredAccess, stripped)

\* mutant: the self-management exemption is missing
ObExempt_None(owner, cPid, svcPid, uiPid) ==
    owner # svcPid /\ owner # uiPid

\* mutant: only the service slot is looked at
ObExempt_ServiceOnly(owner, cPid, svcPid, uiPid) ==
    owner # svcPid \/ cPid = svcPid

\* the two early returns on the identities: the target is in no slot, or the
\* requester is in one
ObExempt(owner, cPid, svcPid, uiPid) ==
    \/ (owner # svcPid /\ owner # uiPid)
    \/ (cPid = svcPid \/ cPid = uiPid)

\* the body shared by the two callbacks; owner is PsGetProcessId of the
\* target process, or of the process that owns the target thread
ObPreCallback(registeredType, stripped, owner, cPid, OpInfo) ==
    LET pPid == IF ProtectedPid # NULL THEN ProtectedPid ELSE ProtectedUiPid
    IN  IF pPid = NULL THEN OpInfo.DesiredAccess
        ELSE IF OpInfo.ObjectType # registeredType THEN OpInfo.DesiredAccess
        ELSE IF ObExempt(owner, cPid, ProtectedPid, ProtectedUiPid)
        THEN OpInfo.DesiredAccess
        ELSE IF OpInfo.Operation = "OB_OPERATION_HANDLE_CREATE"
        THEN StripRights(OpInfo.DesiredAccess, stripped)
        ELSE IF OpInfo.Operation = "OB_OPERATION_HANDLE_DUPLICATE"
        THEN StripRights(OpInfo.DesiredAccess, stripped)
        ELSE OpInfo.DesiredAccess

TadObProcessPreCallback(cPid, OpInfo) ==
    /\ ObCallbackHandle
    /\ OpInfo.ObjectType = "PsProcessType"
    /\ UNCHANGED << gateVars, regVars, pidVars, policyVars, bannedVars, now >>
    /\ last' = [op |-> "TadObProcessPreCallback", cPid |-> cPid, OpInfo |-> OpInfo,
                status |-> "OB_PREOP_SUCCESS",
                DesiredAccess |-> ObPreCallback("PsProcessType",
                                     TAD_STRIPPED_PROCESS_RIGHTS,
                                     OpInfo.Object.Pid, cPid, OpInfo)]

TadObThreadPreCallback(cPid, OpInfo) ==
    /\ ObCallbackHandle
    /\ OpInfo.ObjectType = "PsThreadType"
    /\ UNCHANGED << gateVars, regVars, pidVars, policyVars, bannedVars, now >>
    /\ last' = [op |-> "TadObThreadPreCallback", cPid |-> cPid, OpInfo |-> OpInfo,
                status |-> "OB_PREOP_SUCCESS",
                DesiredAccess |-> ObPreCallback("PsThreadType",
                                     TAD_STRIPPED_THREAD_RIGHTS,
                                     OpInfo.Object.Owner, cPid, OpInfo)]

(***************************************************************************)
(* Counted strings (UNICODE_STRING): Length in bytes, Buffer the code      *)
(* units it points to, << >> for a NULL Buffer.                            *)
(***************************************************************************)
UStr(chars) == [Length |-> 2 * Len(chars), Buffer |-> chars]

\* RtlUpcaseUnicodeChar on the code units below 128
RtlUpcaseUnicodeChar(c) == IF c >= 97 /\ c <= 122 THEN c - 32 ELSE c

Fold(c, CaseInSensitive) == IF CaseInSensitive THEN RtlUpcaseUnicodeChar(c) ELSE c

\* RtlCompareUnicodeString: the first difference of the (folded) code units,
\* else the difference of the lengths
RECURSIVE CompareFrom(_, _, _, _)
CompareFrom(s1, s2, k, CaseInSensitive) ==
    LET n1 == s1.Length \div 2
        n2 == s2.Length \div 2
    IN  IF k > n1 \/ k > n2 THEN n1 - n2
        ELSE LET c1 == Fold(s1.Buffer[k], CaseInSensitive)
                 c2 == Fold(s2.Buffer[k], CaseInSensitive)
             IN  IF c1 # c2 THEN c1 - c2
                 ELSE CompareFrom(s1, s2, k + 1, CaseInSensitive)

RtlCompareUnicodeString(s1, s2, CaseInSensitive) ==
    CompareFrom(s1, s2, 1, CaseInSensitive)

\* RtlEqualUnicodeString: equal lengths and equal (folded) code units
RtlEqualUnicodeString(s1, s2, CaseInSensitive) ==
    /\ s1.Length = s2.Length
    /\ \A k \in 1..(s1.Length \div 2) :
          Fold(s1.Buffer[k], CaseInSensitive) = Fold(s2.Buffer[k], CaseInSensitive)

(***************************************************************************)
(* 9. Filesystem intercept                                                 *)
(***************************************************************************)
\* L"TAD.RV.sys"
TAD_DRIVER_FILENAME == << 84, 65, 68, 46, 82, 86, 46, 115, 121, 115 >>
\* L"TAD.RV.exe"
TAD_UI_FILENAME == << 84, 65, 68, 46, 82, 86, 46, 101, 120, 101 >>
\* L"TadBridgeService.exe"
TAD_SERVICE_FILENAME ==
    << 84, 97, 100, 66, 114, 105, 100, 103, 101, 83,
       101, 114, 118, 105, 99, 101, 46, 101, 120, 101 >>

\* mutant: the comparison is case-sensitive
TadIsProtectedFilename_CaseSensitive(FileName) ==
    \/ RtlCompareUnicodeString(FileName, UStr(TAD_DRIVER_FILENAME), FALSE) = 0
    \/ RtlCompareUnicodeString(FileName, UStr(TAD_UI_FILENAME), FALSE) = 0
    \/ RtlCompareUnicodeString(FileName, UStr(TAD_SERVICE_FILENAME), FALSE) = 0

\* mutant: the service binary is forgotten
TadIsProtectedFilename_NoService(FileName) ==
    \/ RtlCompareUnicodeString(FileName, UStr(TAD_DRIVER_FILENAME), TRUE) = 0
    \/ RtlCompareUnicodeString(FileName, UStr(TAD_UI_FILENAME), TRUE) = 0

TadIsProtectedFilename(FileName) ==
    \/ RtlCompareUnicodeString(FileName, UStr(TAD_DRIVER_FILENAME), TRUE) = 0
    \/ RtlCompareUnicodeString(FileName, UStr(TAD_UI_FILENAME), TRUE) = 0
    \/ RtlCompareUnicodeString(FileName, UStr(TAD_SERVICE_FILENAME), TRUE) = 0

\* mutant: the extended disposition is a deletion only with its flag set
ClassifySetInformation_ExByFlag(Data) ==
    LET infoClass == Data.FileInformationClass
        d == Data.InfoBuffer
    IN  CASE infoClass \in { "FileDispositionInformation", "FileDispositionInformationEx" } ->
                << d # NULLBUF /\ d[1].DeleteFile, FALSE, TRUE >>
          [] infoClass = "FileRenameInformation" -> << FALSE, TRUE, TRUE >>
          [] infoClass = "FileRenameInformationEx" -> << FALSE, TRUE, TRUE >>
          [] OTHER -> << FALSE, FALSE, FALSE >>

\* the switch on the information class: << isDeletion, isRename, recognised >>
ClassifySetInformation(Data) ==
    LET infoClass == Data.FileInformationClass
        d == Data.InfoBuffer
    IN  CASE infoClass = "FileDispositionInformation" ->
                << d # NULLBUF /\ d[1].DeleteFile, FALSE, TRUE >>
          [] infoClass = "FileDispositionInformationEx" -> << TRUE, FALSE, TRUE >>
          [] infoClass = "FileRenameInformation" -> << FALSE, TRUE, TRUE >>
          [] infoClass = "FileRenameInformationEx" -> << FALSE, TRUE, TRUE >>
          [] OTHER -> << FALSE, FALSE, FALSE >>

\* the callback's result: the FLT_PREOP status and Data->IoStatus.Status, which
\* stays as the I/O manager set it ("unchanged") unless the request is blocked
PreSetInformationResult(Data) ==
    LET c == ClassifySetInformation(Data)
        \* queried: FltGetFileNameInformation has been called
        pass(q) == [callback |-> "FLT_PREOP_SUCCESS_NO_CALLBACK", IoStatus |-> "unchanged",
                    queried |-> q]
    IN  IF ~c[3] THEN pass(FALSE)
        ELSE IF ~c[1] /\ ~c[2] THEN pass(FALSE)
        ELSE IF Data.GetNameStatus # "STATUS_SUCCESS" THEN pass(TRUE)
        ELSE IF Data.ParseNameStatus # "STATUS_SUCCESS" THEN pass(TRUE)
        ELSE IF TadIsProtectedFilename(Data.FinalComponent)
        THEN [callback |-> "FLT_PREOP_COMPLETE", IoStatus |-> "STATUS_ACCESS_DENIED",
              queried |-> TRUE]
        ELSE pass(TRUE)

TadPreSetInformationCallback(Data) ==
    /\ FilterHandle
    /\ UNCHANGED << gateVars, regVars, pidVars, policyVars, bannedVars, now >>
    /\ last' = [op |-> "TadPreSetInformationCallback", Data |-> Data,
                status |-> PreSetInformationResult(Data).callback,
                IoStatus |-> PreSetInformationResult(Data).IoStatus,
                NameQueried |-> PreSetInformationResult(Data).queried]


(***************************************************************************)
(* IOCTL_TAD_SET_BANNED_APPS.  The payload is Count and ImageNames, an     *)
(* array (indexed from 0) of TAD_MAX_BANNED_APPS fields of                 *)
(* TAD_MAX_IMAGE_NAME_LEN code units each.                                 *)
(***************************************************************************)
\* the inner loop: the number of code units before the first NUL, at most
\* TAD_MAX_IMAGE_NAME_LEN
RECURSIVE SrcLen(_, _)
SrcLen(field, j) ==
    IF j >= TAD_MAX_IMAGE_NAME_LEN THEN j
    ELSE IF field[j + 1] = 0 THEN j
    ELSE SrcLen(field, j + 1)

EntrySkipped(field) ==
    SrcLen(field, 0) = 0 \/ SrcLen(field, 0) >= TAD_MAX_IMAGE_NAME_LEN

\* the state of the list after the iterations i, i+1, ..., Count-1 of the
\* outer loop, started from the state acc = [apps, storage, count]
RECURSIVE CopyEntries(_, _, _)
CopyEntries(p, i, acc) ==
    IF i >= p.Count THEN acc
    ELSE IF EntrySkipped(p.ImageNames[i]) THEN CopyEntries(p, i + 1, acc)
    ELSE LET srcLen == SrcLen(p.ImageNames[i], 0)
         IN  CopyEntries(p, i + 1,
                [apps |-> [acc.apps EXCEPT ![i] =
                              [Length |-> srcLen * 2,
                               MaximumLength |-> TAD_MAX_IMAGE_NAME_LEN * 2,
                               Buffer |-> i + 1]],
                 storage |-> [acc.storage EXCEPT ![i] =
                                 SubSeq(p.ImageNames[i], 1, srcLen)],
                 count |-> acc.count + 1])

\* the list the request leaves behind: zeroed, then filled by the loop
ReplacedList(p) ==
    CopyEntries(p, 0, [apps |-> [i \in BannedIndex |-> ZeroString],
                       storage |-> [i \in BannedIndex |-> << >>],
                       count |-> 0])

IoctlSetBannedApps(caller, irp) ==
    LET ioctl == "IOCTL_TAD_SET_BANNED_APPS"
        buf == irp.SystemBuffer
    IN  /\ DeviceObject
        /\ UNCHANGED << gateVars, regVars, pidVars, policyVars, now >>
        /\ IF irp.InputBufferLength < SizeofBannedAppsInput
           THEN /\ Complete(ioctl, caller, irp, "STATUS_BUFFER_TOO_SMALL", 0)
                /\ UNCHANGED bannedVars
           ELSE IF ~TadIsCallerProtectedAgent(caller)
           THEN /\ Complete(ioctl, caller, irp, "STATUS_ACCESS_DENIED", 0)
                /\ UNCHANGED bannedVars
           ELSE IF buf[1].Count > TAD_MAX_BANNED_APPS
           THEN /\ Complete(ioctl, caller, irp, "STATUS_INVALID_PARAMETER", 0)
                /\ UNCHANGED bannedVars
           ELSE /\ BannedApps' = ReplacedList(buf[1]).apps
                /\ BannedAppStorage' = ReplacedList(buf[1]).storage
                /\ BannedAppCount' = ReplacedList(buf[1]).count
                /\ Complete(ioctl, caller, irp, "STATUS_SUCCESS", 0)

(***************************************************************************)
(* 10. Process-launch intercept: TadProcessNotifyCallback                  *)
(***************************************************************************)
\* the loop that finds the index after the last '\\' (code unit 92)
RECURSIVE LastSep(_, _, _)
LastSep(name, k, lastSep) ==
    IF k >= name.Length \div 2 THEN lastSep
    ELSE LastSep(name, k + 1, IF name.Buffer[k + 1] = 92 THEN k + 1 ELSE lastSep)

\* component.Buffer = Buffer + lastSep, component.Length = Length - lastSep * 2
Component(name) ==
    LET lastSep == LastSep(name, 0, 0)
    IN  [Length |-> name.Length - (lastSep * 2),
         Buffer |-> SubSeq(name.Buffer, lastSep + 1, name.Length \div 2)]

\* the UNICODE_STRING g_Tad.BannedApps[i], its Buffer followed into the storage
BannedString(i) ==
    [Length |-> BannedApps[i].Length,
     Buffer |-> IF BannedApps[i].Buffer = NULL THEN << >>
                ELSE BannedAppStorage[BannedApps[i].Buffer - 1]]

\* mutant: nothing is matched while stealth is on
MatchesBannedApp_UnlessStealth(component) ==
    /\ StealthActive = 0
    /\ \E i \in BannedIndex :
           /\ i < BannedAppCount
           /\ RtlEqualUnicodeString(component, BannedString(i), TRUE)

\* the loop over i < BannedAppCount
MatchesBannedApp(component) ==
    \E i \in BannedIndex :
        /\ i < BannedAppCount
        /\ RtlEqualUnicodeString(component, BannedString(i), TRUE)

\* CreateInfo is << >> for a termination, else << [ImageFileName |-> ...] >>
\* with ImageFileName << >> (NULL) or << a counted string >>
CreationStatus(CreateInfo) ==
    IF CreateInfo = << >> THEN "none"
    ELSE IF CreateInfo[1].ImageFileName = << >> THEN "STATUS_SUCCESS"
    ELSE LET name == CreateInfo[1].ImageFileName[1]
         IN  IF name.Buffer = << >> \/ name.Length = 0 THEN "STATUS_SUCCESS"
             ELSE IF BitAnd(CurrentPolicy.Flags, TAD_POLICY_FLAG_BLOCK_APPS) = 0
             THEN "STATUS_SUCCESS"
             ELSE IF Component(name).Length = 0 THEN "STATUS_SUCCESS"
             ELSE IF MatchesBannedApp(Component(name)) THEN "STATUS_ACCESS_DENIED"
             ELSE "STATUS_SUCCESS"

TadProcessNotifyCallback(ProcessId, CreateInfo) ==
    /\ ProcessNotifyRegistered
    /\ UNCHANGED << gateVars, regVars, pidVars, policyVars, bannedVars, now >>
    /\ last' = [op |-> "TadProcessNotifyCallback", ProcessId |-> ProcessId,
                CreateInfo |-> CreateInfo,
                CreationStatus |-> CreationStatus(CreateInfo)]


(***************************************************************************)
(* The requests the environment issues.                                    *)
(***************************************************************************)
\* the pre-shared secret the agent presents: "TAD-RV.SECURITUKEY012345MONITON!",
\* which is TadObfuscatedKey with 0xA7 XORed off every byte
PreSharedSecret ==
    << 84, 65, 68, 45, 82, 86, 46, 83, 69, 67, 85, 82, 73, 84, 85, 75,
       69, 89, 48, 49, 50, 51, 52, 53, 77, 79, 78, 73, 84, 79, 78, 33 >>

\* TAD_UNLOCK_INPUT.AuthKey: the secret, the secret with its first or its last
\* byte changed, and the stored bytes as they are
UnlockKeys ==
    { PreSharedSecret,
      [PreSharedSecret EXCEPT ![1] = 85],
      [PreSharedSecret EXCEPT ![TAD_AUTH_KEY_SIZE] = 34],
      TadObfuscatedKey }

UnlockIrps ==
    { Irp(SizeofUnlockInput, 0, << [AuthKey |-> k] >>) : k \in UnlockKeys }
    \cup { Irp(SizeofUnlockInput - 1, 0, << [AuthKey |-> PreSharedSecret] >>),
           Irp(SizeofUnlockInput, 0, NULLBUF) }

\* TAD_PROTECT_PID_INPUT: every pid from 0 to the first that names no process
ProtectPidIrps ==
    { Irp(SizeofProtectPidInput, 0, << [TargetPid |-> t, Flags |-> f] >>) :
          t \in 0..(MaxPid + 1), f \in {0, 1} }
    \cup { Irp(SizeofProtectPidInput - 1, 0, << [TargetPid |-> 1, Flags |-> 0] >>),
           Irp(SizeofProtectPidInput, 0, NULLBUF) }

\* the well-formed registrations alone
ProtectPidIrpsValid ==
    { Irp(SizeofProtectPidInput, 0, << [TargetPid |-> t, Flags |-> 0] >>) : t \in Pids }

\* TAD_PROTECT_UI_INPUT
ProtectUiIrps ==
    { Irp(SizeofProtectUiInput, 0, << [TargetPid |-> t, Protect |-> pr] >>) :
          t \in 0..(MaxPid + 1), pr \in {0, 1} }
    \cup { Irp(SizeofProtectUiInput - 1, 0, << [TargetPid |-> 1, Protect |-> 1] >>) }

\* TAD_POLICY_BUFFER
PolicyPayload(version, flags) ==
    [Version |-> version, Flags |-> flags, HeartbeatIntervalMs |-> 2000,
     HeartbeatTimeoutMs |-> 6000, OrganizationalUnit |-> << 79, 85 >>,
     AllowedRoles |-> 4]

PolicyIrps ==
    { Irp(SizeofPolicyBuffer, 0, << PolicyPayload(1, TAD_POLICY_FLAG_BLOCK_USB) >>),
      Irp(SizeofPolicyBuffer, 0,
          << PolicyPayload(1, TAD_POLICY_FLAG_BLOCK_USB + TAD_POLICY_FLAG_BLOCK_APPS) >>),
      Irp(SizeofPolicyBuffer, 0, << PolicyPayload(2, TAD_POLICY_FLAG_BLOCK_APPS) >>),
      Irp(SizeofPolicyBuffer - 1, 0, << PolicyPayload(1, TAD_POLICY_FLAG_BLOCK_APPS) >>),
      Irp(SizeofPolicyBuffer, 0, NULLBUF) }

\* OB_PRE_OPERATION_INFORMATION: the desired access masks are 0,
\* PROCESS_QUERY_LIMITED_INFORMATION (no stripped right),
\* 0x838 (process: SUSPEND_RESUME | VM_WRITE | VM_OPERATION | 0x10; thread:
\* SET_CONTEXT and rights that are kept),
\* SYNCHRONIZE | 0x3 (TERMINATE and CREATE_THREAD or SUSPEND_RESUME)
\* and ALL_ACCESS
DesiredAccessMasks == { 0, 4096, 2104, 1048579, 2097151 }

ObOperations == { "OB_OPERATION_HANDLE_CREATE", "OB_OPERATION_HANDLE_DUPLICATE" }

\* the targets and the requesters are live processes: no handle is opened to,
\* or by, the idle process (pid 0)
ObProcessOps ==
    { [ObjectType |-> "PsProcessType", Object |-> [Pid |-> t],
       Operation |-> o, DesiredAccess |-> m] :
          t \in Pids, o \in ObOperations, m \in DesiredAccessMasks }

ObThreadOps ==
    { [ObjectType |-> "PsThreadType", Object |-> [Owner |-> t],
       Operation |-> o, DesiredAccess |-> m] :
          t \in Pids, o \in ObOperations, m \in DesiredAccessMasks }

\* FLT_CALLBACK_DATA of a set-information request with what the name
\* resolution of the filter manager returns for its target
FileNames ==
    { TAD_DRIVER_FILENAME,
      << 116, 97, 100, 46, 114, 118, 46, 115, 121, 115 >>,        \* tad.rv.sys
      << 84, 65, 68, 46, 82, 86, 46, 83, 89, 83 >>,                \* TAD.RV.SYS
      TAD_UI_FILENAME,
      TAD_SERVICE_FILENAME,
      << 116, 97, 100, 98, 114, 105, 100, 103, 101, 115,
         101, 114, 118, 105, 99, 101, 46, 69, 88, 69 >>,           \* tadbridgeservice.EXE
      << 84, 65, 68, 46, 82, 86, 46, 115, 121 >>,                  \* TAD.RV.sy
      << 84, 65, 68, 46, 82, 86, 46, 115, 121, 115, 46, 98, 97, 107 >>, \* TAD.RV.sys.bak
      << 120, 84, 65, 68, 46, 82, 86, 46, 115, 121, 115 >>,        \* xTAD.RV.sys
      << 110, 111, 116, 101, 115, 46, 116, 120, 116 >>,            \* notes.txt
      << >> }

InfoClasses ==
    { "FileDispositionInformation", "FileDispositionInformationEx",
      "FileRenameInformation", "FileRenameInformationEx",
      "FileBasicInformation", "FileEndOfFileInformation" }

NameStatuses ==
    { << "STATUS_SUCCESS", "STATUS_SUCCESS" >>,
      << "STATUS_OBJECT_PATH_NOT_FOUND", "STATUS_SUCCESS" >>,
      << "STATUS_SUCCESS", "STATUS_INSUFFICIENT_RESOURCES" >> }

SetInformationData ==
    { [FileInformationClass |-> c, InfoBuffer |-> b, GetNameStatus |-> st[1],
       ParseNameStatus |-> st[2], FinalComponent |-> UStr(n)] :
          c \in InfoClasses,
          b \in { NULLBUF, << [DeleteFile |-> TRUE] >>, << [DeleteFile |-> FALSE] >> },
          st \in NameStatuses, n \in FileNames }

\* a field of TAD_BANNED_APPS_INPUT.ImageNames: the code units, then NULs
Field(chars) ==
    chars \o [j \in 1..(TAD_MAX_IMAGE_NAME_LEN - Len(chars)) |-> 0]

\* a field without a NUL
FullField == [j \in 1..TAD_MAX_IMAGE_NAME_LEN |-> 120]

BannedAppsInput(count, fields) ==
    [Count |-> count,
     ImageNames |-> [i \in BannedIndex |->
                        IF i < Len(fields) THEN fields[i + 1] ELSE Field(<< >>)]]

NameA == << 97, 46, 101, 120, 101 >>    \* a.exe
NameB == << 98, 46, 101, 120, 101 >>    \* b.exe
NameC == << 99, 46, 101, 120, 101 >>    \* c.exe

BannedAppsPayloads ==
    { \* {"a.exe", "b.exe"}; the first field goes on after its NUL
      BannedAppsInput(2, << Field(NameA \o << 0, 122 >>), Field(NameB) >>),
      \* {"c.exe"}, with a field past Count
      BannedAppsInput(1, << Field(NameC), Field(NameA) >>),
      \* Count 0, with a field past Count
      BannedAppsInput(0, << Field(NameB) >>),
      \* an empty entry before "a.exe"
      BannedAppsInput(2, << Field(<< >>), Field(NameA) >>),
      \* an entry without NUL before "b.exe"
      BannedAppsInput(2, << FullField, Field(NameB) >>),
      \* Count over the limit
      BannedAppsInput(TAD_MAX_BANNED_APPS + 1, << Field(NameA) >>) }

BannedAppsIrps ==
    { Irp(SizeofBannedAppsInput, 0, << p >>) : p \in BannedAppsPayloads }
    \cup { Irp(SizeofBannedAppsInput - 1, 0,
               << BannedAppsInput(1, << Field(NameA) >>) >>) }

\* PS_CREATE_NOTIFY_INFO: << >> for a termination
ImagePaths ==
    { << 92, 68, 92, 97, 46, 101, 120, 101 >>,                     \* \D\a.exe
      << 65, 46, 69, 88, 69 >>,                                    \* A.EXE
      << 92, 68, 92, 66, 46, 101, 120, 101 >>,                     \* \D\B.exe
      << 92, 68, 92, 99, 46, 101, 120, 101 >>,                     \* \D\c.exe
      << 92, 68, 92, 97, 46, 101, 120, 101, 92 >>,                 \* \D\a.exe\
      << 92, 97, 46, 101, 120, 101, 92, 99, 46, 101, 120, 101 >>,  \* \a.exe\c.exe
      << 92, 68, 92, 120, 97, 46, 101, 120, 101 >>,                \* \D\xa.exe
      << 92, 68, 92, 97, 46, 101, 120, 101, 50 >>,                 \* \D\a.exe2
      << >> }

CreateInfos ==
    { << >>, << [ImageFileName |-> << >>] >> }
    \cup { << [ImageFileName |-> << UStr(path) >>] >> : path \in ImagePaths }

\* process 1 stands for the agent, process 2 for another process
AgentAndOther == { 1, 2 }

\* one request for each opcode and callback outside the unload gate
OneProtectPidIrp ==
    { Irp(SizeofProtectPidInput, 0, << [TargetPid |-> 1, Flags |-> 0] >>) }

OnePolicyIrp ==
    { Irp(SizeofPolicyBuffer, 0, << PolicyPayload(1, TAD_POLICY_FLAG_BLOCK_APPS) >>) }

OneProtectUiIrp ==
    { Irp(SizeofProtectUiInput, 0, << [TargetPid |-> 2, Protect |-> 1] >>) }

OneBannedAppsIrp ==
    { Irp(SizeofBannedAppsInput, 0, << BannedAppsInput(1, << Field(NameA) >>) >>) }

OneObProcessOp ==
    { [ObjectType |-> "PsProcessType", Object |-> [Pid |-> 1],
       Operation |-> "OB_OPERATION_HANDLE_CREATE", DesiredAccess |-> 2097151] }

OneObThreadOp ==
    { [ObjectType |-> "PsThreadType", Object |-> [Owner |-> 1],
       Operation |-> "OB_OPERATION_HANDLE_CREATE", DesiredAccess |-> 2097151] }

OneSetInformation ==
    { [FileInformationClass |-> "FileDispositionInformationEx", InfoBuffer |-> NULLBUF,
       GetNameStatus |-> "STATUS_SUCCESS", ParseNameStatus |-> "STATUS_SUCCESS",
       FinalComponent |-> UStr(TAD_DRIVER_FILENAME)] }

OneCreateInfo ==
    { << [ImageFileName |-> << UStr(<< 92, 68, 92, 97, 46, 101, 120, 101 >>) >>] >> }


(***************************************************************************)
(* What the claims speak of, recorded next to the driver's state:          *)
(*   wrongRun       the length of the current run of consecutive Unlock    *)
(*                  requests with a wrong secret that got as far as the    *)
(*                  secret's evaluation or were turned away by the lockout *)
(*                  this run opened (6 stands for "more than 5")           *)
(*   runLockEnd     the end of the lockout window opened by the fifth      *)
(*   acceptedNames  the valid entries of the last accepted SetBannedApps   *)
(***************************************************************************)
Permitted(caller) == AgentProcess = NULL \/ caller = AgentProcess

WellFormedUnlock(irp) ==
    irp.InputBufferLength >= SizeofUnlockInput /\ irp.SystemBuffer # NULLBUF

PresentsSecret(irp) == irp.SystemBuffer[1].AuthKey = PreSharedSecret

UnlockHistory(caller, irp) ==
    /\ UNCHANGED << acceptedNames, acceptedFlagOff >>
    /\ IF ~(WellFormedUnlock(irp) /\ Permitted(caller))
       THEN UNCHANGED << wrongRun, runLockEnd >>
       ELSE LET locked == wrongRun >= 5 /\ now < runLockEnd
            IN  IF locked
                THEN /\ wrongRun' = IF PresentsSecret(irp) THEN wrongRun ELSE 6
                     /\ UNCHANGED runLockEnd
                ELSE IF PresentsSecret(irp)
                THEN /\ wrongRun' = 0
                     /\ UNCHANGED runLockEnd
                ELSE LET run == IF wrongRun >= 5 THEN 1 ELSE wrongRun + 1
                     IN  /\ wrongRun' = run
                         /\ runLockEnd' = IF run = 5
                                          THEN now + (-TAD_LOCKOUT_DURATION)
                                          ELSE runLockEnd

\* the entries of a request that are non-empty and NUL-terminated
NameOfField(field) ==
    LET n == CHOOSE n \in 0..(TAD_MAX_IMAGE_NAME_LEN - 1) :
                 /\ field[n + 1] = 0
                 /\ \A m \in 1..n : field[m] # 0
    IN  SubSeq(field, 1, n)

ValidEntries(p) ==
    { NameOfField(p.ImageNames[i]) :
          i \in { j \in BannedIndex :
                      /\ j < p.Count
                      /\ p.ImageNames[j][1] # 0
                      /\ \E n \in 1..TAD_MAX_IMAGE_NAME_LEN : p.ImageNames[j][n] = 0 } }

\* the payload of the last request IOCTL_TAD_SET_POLICY accepted (it passed
\* the checks of the handler)
PolicyHistory(irp) ==
    acceptedPolicy' = IF last'.status = "STATUS_SUCCESS"
                      THEN irp.SystemBuffer
                      ELSE acceptedPolicy

BannedAppsHistory(irp) ==
    /\ UNCHANGED << wrongRun, runLockEnd >>
    /\ acceptedNames' = IF last'.status = "STATUS_SUCCESS"
                        THEN ValidEntries(irp.SystemBuffer[1])
                        ELSE acceptedNames
    /\ acceptedFlagOff' = IF last'.status = "STATUS_SUCCESS"
                          THEN BitAnd(CurrentPolicy.Flags, TAD_POLICY_FLAG_BLOCK_APPS) = 0
                          ELSE acceptedFlagOff

(***************************************************************************)
(* The steps of the system: each takes the processes that issue the        *)
(* request and the requests they issue.                                    *)
(***************************************************************************)
ProtectPid(callers, irps) ==
    \E caller \in callers, irp \in irps :
        IoctlProtectPid(caller, irp) /\ UNCHANGED << histVars, quietVars >>

Unlock(callers, irps) ==
    \E caller \in callers, irp \in irps :
        IoctlUnlock(caller, irp) /\ UnlockHistory(caller, irp) /\ UNCHANGED quietVars

SetPolicy(callers, irps) ==
    \E caller \in callers, irp \in irps :
        /\ IoctlSetPolicy(caller, irp)
        /\ PolicyHistory(irp)
        /\ UNCHANGED << histVars, heartbeatVars, modeVars, flightVars,
                        committedApps, marksSinceTick, completedSinceTick >>

ProtectUi(callers, irps) ==
    \E caller \in callers, irp \in irps :
        IoctlProtectUi(caller, irp) /\ UNCHANGED << histVars, quietVars >>

SetBannedApps(callers, irps) ==
    \E caller \in callers, irp \in irps :
        /\ IoctlSetBannedApps(caller, irp)
        /\ BannedAppsHistory(irp)
        /\ committedApps' = bannedVars'
        /\ UNCHANGED << heartbeatVars, modeVars, flightVars, acceptedPolicy,
                        marksSinceTick, completedSinceTick >>

DriverUnload == TadDriverUnload /\ UNCHANGED << histVars, quietVars >>

FilterUnload == TadFilterUnloadCallback /\ UNCHANGED << histVars, quietVars >>

ObProcessPre(callers, ops) ==
    \E cPid \in callers, OpInfo \in ops :
        TadObProcessPreCallback(cPid, OpInfo) /\ UNCHANGED << histVars, quietVars >>

ObThreadPre(callers, ops) ==
    \E cPid \in callers, OpInfo \in ops :
        TadObThreadPreCallback(cPid, OpInfo) /\ UNCHANGED << histVars, quietVars >>

PreSetInformation(requests) ==
    \E Data \in requests :
        TadPreSetInformationCallback(Data) /\ UNCHANGED << histVars, quietVars >>

ProcessNotify(callers, infos) ==
    \E ProcessId \in callers, CreateInfo \in infos :
        TadProcessNotifyCallback(ProcessId, CreateInfo) /\ UNCHANGED << histVars, quietVars >>

\* the unload gate and the driver's life cycle; every other opcode and
\* callback takes part with one request
Next ==
    \/ ProtectPid(AgentAndOther, OneProtectPidIrp)
    \/ Unlock(AgentAndOther, UnlockIrps)
    \/ Tick
    \/ DriverUnload
    \/ FilterUnload
    \/ SetPolicy({ 1 }, OnePolicyIrp)
    \/ ProtectUi({ 1 }, OneProtectUiIrp)
    \/ SetBannedApps({ 1 }, OneBannedAppsIrp)
    \/ ObProcessPre({ 2 }, OneObProcessOp)
    \/ ObThreadPre({ 2 }, OneObThreadOp)
    \/ PreSetInformation(OneSetInformation)
    \/ ProcessNotify({ 2 }, OneCreateInfo)

Spec == Init /\ [][Next]_vars

\* handle interception
NextOb ==
    \/ ProtectPid(Pids, ProtectPidIrpsValid)
    \/ ProtectUi(Pids, ProtectUiIrps)
    \/ ObProcessPre(Pids, ObProcessOps)
    \/ ObThreadPre(Pids, ObThreadOps)

SpecOb == Init /\ [][NextOb]_vars

\* the file-system filter
NextFs == PreSetInformation(SetInformationData)

SpecFs == Init /\ [][NextFs]_vars

\* the banned-application list
NextApps ==
    \/ ProtectPid({ 1 }, ProtectPidIrpsValid)
    \/ SetPolicy(AgentAndOther, PolicyIrps)
    \/ SetBannedApps(AgentAndOther, BannedAppsIrps)
    \/ ProcessNotify({ 2 }, CreateInfos)

SpecApps == Init /\ [][NextApps]_vars


(***************************************************************************)
(* The unload gate                                                         *)
(***************************************************************************)
\* the step is the handling of an Unlock request of sufficient size with a
\* buffer, issued by a caller that passes the caller-identity check
PermittedUnlockStep ==
    /\ last'.op = "IOCTL_TAD_UNLOCK"
    /\ WellFormedUnlock(last'.irp)
    /\ Permitted(last'.caller)

\* C1: after exactly 5 consecutive wrong-secret Unlock requests by a permitted
\* caller, the next Unlock request made before the lockout window has elapsed
\* is denied with access-denied as locked-out (no attempt is counted, the
\* window is not moved), whatever secret it presents, and AllowUnload stays
\* as it was (false if it was false).
C1_FiveWrongThenLockedOut ==
    [][ (PermittedUnlockStep /\ wrongRun = 5 /\ now < runLockEnd)
            => /\ last'.status = "STATUS_ACCESS_DENIED"
               /\ AllowUnload' = AllowUnload
               /\ FailedUnlockAttempts' = FailedUnlockAttempts
               /\ LockoutUntil' = LockoutUntil ]_vars

\* the correct secret, presented by a permitted caller inside the window that
\* five wrong secrets in a row opened, has been denied and the unload gate is
\* still closed
C1_Witness ==
    /\ last.op = "IOCTL_TAD_UNLOCK"
    /\ WellFormedUnlock(last.irp)
    /\ Permitted(last.caller)
    /\ PresentsSecret(last.irp)
    /\ wrongRun = 5
    /\ now < runLockEnd
    /\ last.status = "STATUS_ACCESS_DENIED"
    /\ AllowUnload = 0

\* C2: once the lockout window has elapsed (now >= LockoutUntil after a
\* lockout), an Unlock request from a permitted caller is evaluated with the
\* counter reset to 0: the correct secret succeeds, sets AllowUnload and
\* leaves FailedAttempts at 0; a wrong secret is denied and leaves
\* FailedAttempts at 1.
C2_WindowElapsedResets ==
    [][ (PermittedUnlockStep /\ FailedUnlockAttempts >= 5 /\ now >= LockoutUntil)
            => IF PresentsSecret(last'.irp)
               THEN /\ last'.status = "STATUS_SUCCESS"
                    /\ AllowUnload' = 1
                    /\ FailedUnlockAttempts' = 0
               ELSE /\ last'.status = "STATUS_ACCESS_DENIED"
                    /\ FailedUnlockAttempts' = 1
                    /\ AllowUnload' = AllowUnload ]_vars

\* a wrong secret has been denied after a lockout whose window has elapsed,
\* and the counter stands at 1
C2_Witness ==
    /\ last.op = "IOCTL_TAD_UNLOCK"
    /\ last.status = "STATUS_ACCESS_DENIED"
    /\ wrongRun = 1
    /\ runLockEnd > 0
    /\ now >= LockoutUntil
    /\ LockoutUntil > 0
    /\ FailedUnlockAttempts = 1
    /\ AllowUnload = 0

\* C3: an Unlock request received while locked out (FailedAttempts >= 5 and
\* now < LockoutUntil) is denied with access-denied (a request that is too
\* short or has no buffer fails validation first) and consumes no attempt:
\* FailedAttempts, LockoutUntil and AllowUnload are unchanged.
C3_LockedOutNoAttemptConsumed ==
    [][ (last'.op = "IOCTL_TAD_UNLOCK" /\ FailedUnlockAttempts >= 5 /\ now < LockoutUntil)
            => /\ WellFormedUnlock(last'.irp) => last'.status = "STATUS_ACCESS_DENIED"
               /\ last'.status # "STATUS_SUCCESS"
               /\ UNCHANGED << FailedUnlockAttempts, LockoutUntil, AllowUnload >> ]_vars

\* a sixth wrong secret in a row has been denied inside the window, and the
\* counter and the end of the window are those the fifth left
C3_Witness ==
    /\ last.op = "IOCTL_TAD_UNLOCK"
    /\ last.status = "STATUS_ACCESS_DENIED"
    /\ wrongRun = 6
    /\ FailedUnlockAttempts = 5
    /\ LockoutUntil = runLockEnd
    /\ now < LockoutUntil
    /\ now > LockoutUntil + TAD_LOCKOUT_DURATION


\* the 32 bytes equal, byte for byte, the stored bytes with 0xA7 XORed off
EqualsDeobfuscatedSecret(key) ==
    /\ Len(key) = 32
    /\ \A i \in 1..32 : key[i] = BitXor(TadObfuscatedKey[i], 167)
    /\ key = PreSharedSecret

C6_NoTeardownWhileLocked ==
    [][ /\ (last'.op = "TadDriverUnload" /\ AllowUnload = 0)
            => /\ last'.status = "DENIED"
               /\ UNCHANGED << TimerActive, FilterHandle, ProcessNotifyRegistered,
                               ObCallbackHandle, DeviceObject >>
               /\ UNCHANGED << ProtectedPid, AgentProcess, ObjRefs >>
        /\ (last'.op = "TadFilterUnloadCallback" /\ AllowUnload = 0)
            => last'.status = "STATUS_FLT_DO_NOT_DETACH"
        /\ (regVars' # regVars)
            => /\ AllowUnload = 1
               /\ last'.op = "TadDriverUnload" ]_vars

\* an unload has been denied with the agent registered and referenced and
\* every registration in place
C6_Witness ==
    /\ last.op = "TadDriverUnload"
    /\ last.status = "DENIED"
    /\ AllowUnload = 0
    /\ AgentProcess # NULL
    /\ ProtectedPid = AgentProcess
    /\ ObjRefs[AgentProcess] = 1
    /\ TimerActive /\ FilterHandle /\ ProcessNotifyRegistered /\ ObCallbackHandle
    /\ DeviceObject


(***************************************************************************)
(* Handle interception                                                     *)
(***************************************************************************)
ObCallbackDone ==
    last.op \in { "TadObProcessPreCallback", "TadObThreadPreCallback" }

\* the process the handle is for: the target process, or the owner of the
\* target thread
ObTarget ==
    IF last.op = "TadObProcessPreCallback"
    THEN last.OpInfo.Object.Pid
    ELSE last.OpInfo.Object.Owner

\* pid is ServicePid or UiOverlayPid, an unset slot matching nothing
InSetSlot(pid) ==
    \/ (ProtectedPid # NULL /\ pid = ProtectedPid)
    \/ (ProtectedUiPid # NULL /\ pid = ProtectedUiPid)

\* bit b of an access mask
Bit(mask, b) == (mask \div (2 ^ b)) % 2

\* terminate 0x1, create-thread 0x2, VM-operation 0x8, VM-write 0x20,
\* suspend/resume 0x800
ProcessBitsStripped == { 0, 1, 3, 5, 11 }

\* terminate 0x1, suspend/resume 0x2, set-context 0x10
ThreadBitsStripped == { 0, 1, 4 }

\* C7: a handle create or duplicate by a process that is neither ServicePid
\* nor UiOverlayPid, for a protected process or a thread of one, succeeds and
\* is granted the requested mask minus exactly the stripped rights: every
\* stripped bit is clear and every other bit is as requested (the masks of the
\* model lie below 2^31).
C7_ThirdPartyHandleStripped ==
    (ObCallbackDone /\ InSetSlot(ObTarget) /\ ~InSetSlot(last.cPid))
        => /\ last.status = "OB_PREOP_SUCCESS"
           /\ \A b \in 0..30 :
                 Bit(last.DesiredAccess, b) =
                     IF b \in (IF last.op = "TadObProcessPreCallback"
                               THEN ProcessBitsStripped
                               ELSE ThreadBitsStripped)
                     THEN 0
                     ELSE Bit(last.OpInfo.DesiredAccess, b)

\* a third process has duplicated a handle with all access to a thread of the
\* overlay process and got the mask without terminate, suspend/resume and
\* set-context
C7_Witness ==
    /\ last.op = "TadObThreadPreCallback"
    /\ last.OpInfo.Operation = "OB_OPERATION_HANDLE_DUPLICATE"
    /\ ProtectedPid # NULL
    /\ ProtectedUiPid # NULL
    /\ ProtectedUiPid # ProtectedPid
    /\ last.OpInfo.Object.Owner = ProtectedUiPid
    /\ last.cPid \notin { ProtectedPid, ProtectedUiPid }
    /\ last.OpInfo.DesiredAccess = 2097151
    /\ last.DesiredAccess = 2097132

\* C8: the requested mask is granted unchanged in every other case: no slot
\* is set, the target is in no set slot (an unset slot protects nothing), or
\* the requester is in a set slot (self-management).
C8_MaskUnchangedOtherwise ==
    (ObCallbackDone /\ ~(InSetSlot(ObTarget) /\ ~InSetSlot(last.cPid)))
        => /\ last.status = "OB_PREOP_SUCCESS"
           /\ last.DesiredAccess = last.OpInfo.DesiredAccess

\* the overlay process has opened the service process with all access and
\* keeps every right
C8_Witness ==
    /\ last.op = "TadObProcessPreCallback"
    /\ ProtectedPid # NULL
    /\ ProtectedUiPid # NULL
    /\ ProtectedUiPid # ProtectedPid
    /\ last.cPid = ProtectedUiPid
    /\ last.OpInfo.Object.Pid = ProtectedPid
    /\ last.OpInfo.DesiredAccess = 2097151
    /\ last.DesiredAccess = 2097151


(***************************************************************************)
(* Names compared without regard to case, as the claims state it           *)
(***************************************************************************)
SameLetter(c, d) ==
    \/ c = d
    \/ (c >= 65 /\ c <= 90 /\ d = c + 32)
    \/ (d >= 65 /\ d <= 90 /\ c = d + 32)

SameName(n, m) ==
    /\ Len(n) = Len(m)
    /\ \A k \in 1..Len(n) : SameLetter(n[k], m[k])

(***************************************************************************)
(* The file-system filter                                                  *)
(***************************************************************************)
SetInformationDone == last.op = "TadPreSetInformationCallback"

\* a delete disposition (the plain form with its delete flag set, or the
\* extended form) or a rename (plain or extended)
DeleteOrRename(Data) ==
    \/ Data.FileInformationClass \in { "FileDispositionInformationEx",
                                       "FileRenameInformation",
                                       "FileRenameInformationEx" }
    \/ /\ Data.FileInformationClass = "FileDispositionInformation"
       /\ Data.InfoBuffer # NULLBUF
       /\ Data.InfoBuffer[1].DeleteFile

\* TAD.RV.sys, TAD.RV.exe, TadBridgeService.exe
NamedProtected(name) ==
    \/ SameName(name, << 84, 65, 68, 46, 82, 86, 46, 115, 121, 115 >>)
    \/ SameName(name, << 84, 65, 68, 46, 82, 86, 46, 101, 120, 101 >>)
    \/ SameName(name, << 84, 97, 100, 66, 114, 105, 100, 103, 101, 83,
                         101, 114, 118, 105, 99, 101, 46, 101, 120, 101 >>)

NameResolved(Data) ==
    Data.GetNameStatus = "STATUS_SUCCESS" /\ Data.ParseNameStatus = "STATUS_SUCCESS"

SetInformationDenied ==
    last.status = "FLT_PREOP_COMPLETE" /\ last.IoStatus = "STATUS_ACCESS_DENIED"

SetInformationPassed ==
    last.status = "FLT_PREOP_SUCCESS_NO_CALLBACK" /\ last.IoStatus = "unchanged"

FinalComponentOf(path) ==
    LET seps == { k \in 1..Len(path) : path[k] = 92 }
        start == IF seps = {} THEN 1
                 ELSE (CHOOSE k \in seps : \A j \in seps : j <= k) + 1
    IN  SubSeq(path, start, Len(path))

\* the callback has handled the creation of a process that has an image path
LaunchChecked ==
    /\ last.op = "TadProcessNotifyCallback"
    /\ last.CreateInfo # << >>
    /\ last.CreateInfo[1].ImageFileName # << >>

LaunchPath == last.CreateInfo[1].ImageFileName[1].Buffer

BlockAppsSet == (CurrentPolicy.Flags \div 16) % 2 = 1

\* C10: with the block-apps flag set, a process creation is denied if and only
\* if the final component of its image path equals, without regard to case and
\* over its whole length, a valid entry of the most recently accepted
\* SetBannedApps request.
C10_DeniedIffLatestEntry ==
    (LaunchChecked /\ BlockAppsSet)
        => (last.CreationStatus = "STATUS_ACCESS_DENIED"
                <=> \E e \in acceptedNames : SameName(FinalComponentOf(LaunchPath), e))


(***************************************************************************)
(* IOCTL_TAD_SET_POLICY step by step: the handler copies the payload into  *)
(* g_Tad.CurrentPolicy and then sets g_Tad.PolicyValid; it holds no lock,  *)
(* so callbacks on other threads run between the two.                      *)
(***************************************************************************)
\* mutant: the version of the payload is not checked
SetPolicyAccepts_AnyVersion(caller, irp) ==
    /\ irp.InputBufferLength >= SizeofPolicyBuffer
    /\ irp.SystemBuffer # NULLBUF
    /\ ~CallerRejected(caller)

SetPolicyAccepts(caller, irp) ==
    /\ irp.InputBufferLength >= SizeofPolicyBuffer
    /\ irp.SystemBuffer # NULLBUF
    /\ ~CallerRejected(caller)
    /\ irp.SystemBuffer[1].Version = 1

\* the checks and RtlCopyMemory(&g_Tad.CurrentPolicy, p, sizeof(TAD_POLICY_BUFFER))
SetPolicyCopy(caller, irp) ==
    /\ inFlight["SetPolicy"] = << >>
    /\ IF SetPolicyAccepts(caller, irp)
       THEN /\ DeviceObject
            /\ CurrentPolicy' = irp.SystemBuffer[1]
            /\ inFlight' = [inFlight EXCEPT
                               !["SetPolicy"] = << [caller |-> caller, irp |-> irp] >>]
            /\ last' = [op |-> "RtlCopyMemory", caller |-> caller, irp |-> irp]
            /\ acceptedPolicy' = irp.SystemBuffer
            /\ UNCHANGED << gateVars, regVars, pidVars, bannedVars, now, PolicyValid >>
       ELSE /\ IoctlSetPolicy(caller, irp)
            /\ UNCHANGED << inFlight, acceptedPolicy >>
    /\ UNCHANGED << histVars, heartbeatVars, modeVars, BannedAppsLock,
                    committedApps, marksSinceTick, completedSinceTick >>

\* InterlockedExchange(&g_Tad.PolicyValid, 1) and the completion of the request
SetPolicyValid ==
    /\ inFlight["SetPolicy"] # << >>
    /\ LET r == inFlight["SetPolicy"][1]
       IN  /\ PolicyValid' = 1
           /\ Complete("IOCTL_TAD_SET_POLICY", r.caller, r.irp, "STATUS_SUCCESS", 0)
    /\ inFlight' = [inFlight EXCEPT !["SetPolicy"] = << >>]
    /\ UNCHANGED << gateVars, regVars, pidVars, bannedVars, now, CurrentPolicy,
                    histVars, heartbeatVars, modeVars, BannedAppsLock, moreHistVars >>

SetPolicyBegin(callers, irps) ==
    \E caller \in callers, irp \in irps : SetPolicyCopy(caller, irp)

\* the policy is replaced while processes are launched
NextPolicyRace ==
    \/ ProtectPid({ 1 }, ProtectPidIrpsValid)
    \/ SetBannedApps({ 1 }, OneBannedAppsIrp)
    \/ SetPolicyBegin(AgentAndOther, PolicyIrps)
    \/ SetPolicyValid
    \/ ProcessNotify({ 2 }, CreateInfos)

SpecPolicyRace == Init /\ [][NextPolicyRace]_vars

ProcessNotifyDone == last.op = "TadProcessNotifyCallback"

\* C11: the process-launch intercept denies no process creation in a state
\* where PolicyValid is 0 or the block-apps flag of the stored policy is
\* clear, a SetPolicy request being in progress or not, whatever the banned
\* list holds; a process termination is never acted on.
C11_NoDenialUnlessValidAndFlag ==
    ProcessNotifyDone
        => /\ (last.CreateInfo = << >>) => last.CreationStatus = "none"
           /\ (PolicyValid = 0 \/ ~BlockAppsSet)
                  => last.CreationStatus # "STATUS_ACCESS_DENIED"


(***************************************************************************)
(* The banned-application list under g_Tad.BannedAppsLock, step by step:   *)
(* IOCTL_TAD_SET_BANNED_APPS acquires the mutex, zeroes the list, copies   *)
(* one entry per iteration and releases; TadProcessNotifyCallback makes    *)
(* its early returns, then acquires the mutex, scans and releases.         *)
(***************************************************************************)
\* mutant: the mutex excludes nobody
MutexAvailable_Always(owner) == TRUE

\* ExAcquireFastMutex returns once nobody owns the mutex
MutexAvailable(owner) == owner = "free"

\* mutant: the count of a request is not checked
SetBannedAppsAccepts_AnyCount(caller, irp) ==
    /\ irp.InputBufferLength >= SizeofBannedAppsInput
    /\ TadIsCallerProtectedAgent(caller)

SetBannedAppsAccepts(caller, irp) ==
    /\ irp.InputBufferLength >= SizeofBannedAppsInput
    /\ TadIsCallerProtectedAgent(caller)
    /\ irp.SystemBuffer[1].Count <= TAD_MAX_BANNED_APPS

\* the checks and ExAcquireFastMutex; step "clear" comes next
SetBannedAppsAcquire(caller, irp) ==
    /\ inFlight["SetBannedApps"] = << >>
    /\ IF SetBannedAppsAccepts(caller, irp)
       THEN /\ DeviceObject
            /\ MutexAvailable(BannedAppsLock)
            /\ BannedAppsLock' = "SetBannedApps"
            /\ inFlight' = [inFlight EXCEPT !["SetBannedApps"] =
                               << [caller |-> caller, irp |-> irp, i |-> -1] >>]
            /\ last' = [op |-> "ExAcquireFastMutex", caller |-> caller, irp |-> irp]
            /\ UNCHANGED << gateVars, regVars, pidVars, policyVars, bannedVars, now,
                            histVars, committedApps >>
       ELSE /\ IoctlSetBannedApps(caller, irp)
            /\ BannedAppsHistory(irp)
            /\ UNCHANGED << BannedAppsLock, inFlight, committedApps >>
    /\ UNCHANGED << heartbeatVars, modeVars, acceptedPolicy, marksSinceTick,
                    completedSinceTick >>

\* RtlZeroMemory of the storage and of the list, BannedAppCount = 0
SetBannedAppsClear ==
    /\ inFlight["SetBannedApps"] # << >>
    /\ inFlight["SetBannedApps"][1].i = -1
    /\ BannedApps' = [i \in BannedIndex |-> ZeroString]
    /\ BannedAppStorage' = [i \in BannedIndex |-> << >>]
    /\ BannedAppCount' = 0
    /\ inFlight' = [inFlight EXCEPT !["SetBannedApps"][1].i = 0]
    /\ last' = [op |-> "RtlZeroMemory"]
    /\ UNCHANGED << gateVars, regVars, pidVars, policyVars, now, histVars,
                    heartbeatVars, modeVars, BannedAppsLock, moreHistVars >>

\* iteration i of the loop over the entries of the request
SetBannedAppsCopy ==
    /\ inFlight["SetBannedApps"] # << >>
    /\ LET r == inFlight["SetBannedApps"][1]
           p == r.irp.SystemBuffer[1]
           after == CopyEntries([p EXCEPT !.Count = r.i + 1], r.i,
                                [apps |-> BannedApps, storage |-> BannedAppStorage,
                                 count |-> BannedAppCount])
       IN  /\ r.i >= 0
           /\ r.i < p.Count
           /\ BannedApps' = after.apps
           /\ BannedAppStorage' = after.storage
           /\ BannedAppCount' = after.count
           /\ inFlight' = [inFlight EXCEPT !["SetBannedApps"][1].i = r.i + 1]
           /\ last' = [op |-> "CopyEntry", i |-> r.i]
    /\ UNCHANGED << gateVars, regVars, pidVars, policyVars, now, histVars,
                    heartbeatVars, modeVars, BannedAppsLock, moreHistVars >>

\* the loop is over: ExReleaseFastMutex and the completion of the request
SetBannedAppsRelease ==
    /\ inFlight["SetBannedApps"] # << >>
    /\ LET r == inFlight["SetBannedApps"][1]
       IN  /\ r.i >= r.irp.SystemBuffer[1].Count
           /\ Complete("IOCTL_TAD_SET_BANNED_APPS", r.caller, r.irp, "STATUS_SUCCESS", 0)
           /\ BannedAppsHistory(r.irp)
    /\ BannedAppsLock' = "free"
    /\ inFlight' = [inFlight EXCEPT !["SetBannedApps"] = << >>]
    /\ committedApps' = bannedVars
    /\ UNCHANGED << gateVars, regVars, pidVars, policyVars, bannedVars, now,
                    heartbeatVars, modeVars, acceptedPolicy, marksSinceTick,
                    completedSinceTick >>

SetBannedAppsBegin(callers, irps) ==
    \E caller \in callers, irp \in irps : SetBannedAppsAcquire(caller, irp)

\* the callback gets as far as ExAcquireFastMutex
ReachesScan(CreateInfo) ==
    /\ CreateInfo # << >>
    /\ CreateInfo[1].ImageFileName # << >>
    /\ LET name == CreateInfo[1].ImageFileName[1]
       IN  /\ name.Buffer # << >>
           /\ name.Length # 0
           /\ BitAnd(CurrentPolicy.Flags, TAD_POLICY_FLAG_BLOCK_APPS) # 0
           /\ Component(name).Length # 0

\* the early returns, the flag test and the component; the callback then
\* waits for the mutex
NotifyEnter(ProcessId, CreateInfo) ==
    /\ inFlight["ProcessNotify"] = << >>
    /\ IF ReachesScan(CreateInfo)
       THEN /\ ProcessNotifyRegistered
            /\ inFlight' = [inFlight EXCEPT !["ProcessNotify"] =
                               << [ProcessId |-> ProcessId, CreateInfo |-> CreateInfo,
                                   LockAtEntry |-> BannedAppsLock] >>]
            /\ last' = [op |-> "NotifyEnter", ProcessId |-> ProcessId,
                        CreateInfo |-> CreateInfo]
            /\ UNCHANGED << gateVars, regVars, pidVars, policyVars, bannedVars, now >>
       ELSE /\ TadProcessNotifyCallback(ProcessId, CreateInfo)
            /\ UNCHANGED inFlight
    /\ UNCHANGED << histVars, heartbeatVars, modeVars, BannedAppsLock, moreHistVars >>

\* ExAcquireFastMutex, the loop over i < BannedAppCount, ExReleaseFastMutex
NotifyScan ==
    /\ inFlight["ProcessNotify"] # << >>
    /\ MutexAvailable(BannedAppsLock)
    /\ LET r == inFlight["ProcessNotify"][1]
       IN  last' = [op |-> "TadProcessNotifyCallback", ProcessId |-> r.ProcessId,
                    CreateInfo |-> r.CreateInfo,
                    CreationStatus |->
                        IF MatchesBannedApp(Component(r.CreateInfo[1].ImageFileName[1]))
                        THEN "STATUS_ACCESS_DENIED" ELSE "STATUS_SUCCESS",
                    LockAtEntry |-> r.LockAtEntry]
    /\ inFlight' = [inFlight EXCEPT !["ProcessNotify"] = << >>]
    /\ UNCHANGED << gateVars, regVars, pidVars, policyVars, bannedVars, now, histVars,
                    heartbeatVars, modeVars, BannedAppsLock, moreHistVars >>

NotifyBegin(callers, infos) ==
    \E ProcessId \in callers, CreateInfo \in infos : NotifyEnter(ProcessId, CreateInfo)

\* the list is replaced while processes are launched
NextAppsLock ==
    \/ ProtectPid({ 1 }, OneProtectPidIrp)
    \/ SetPolicy({ 1 }, OnePolicyIrp)
    \/ SetBannedAppsBegin(AgentAndOther, BannedAppsIrps)
    \/ SetBannedAppsClear
    \/ SetBannedAppsCopy
    \/ SetBannedAppsRelease
    \/ NotifyBegin({ 2 }, CreateInfos)
    \/ NotifyScan

SpecAppsLock == Init /\ [][NextAppsLock]_vars

\* the callback has scanned the list
LaunchScanned == ProcessNotifyDone /\ "LockAtEntry" \in DOMAIN last

\* the decision the scan of the list `apps` comes to for the component
DecisionAgainst(apps, component) ==
    IF \E i \in BannedIndex :
           /\ i < apps[3]
           /\ apps[1][i].Buffer # NULL
           /\ SameName(component, apps[2][i])
    THEN "STATUS_ACCESS_DENIED" ELSE "STATUS_SUCCESS"

\* C12: under any interleaving of a SetBannedApps request with launch checks,
\* each launch check is decided against the list as a completed request left
\* it (the complete old list or the complete new one): when the check scans,
\* no request is between its zeroing of the list and its last entry, and the
\* decision is the one that list gives.
C12_ScanSeesCommittedList ==
    LaunchScanned
        => /\ bannedVars = committedApps
           /\ last.CreationStatus =
                  DecisionAgainst(committedApps, FinalComponentOf(LaunchPath))

\* a launch check that arrived while a request held the list has been decided
\* against the new list, which bans it
C12_Witness ==
    /\ LaunchScanned
    /\ last.LockAtEntry = "SetBannedApps"
    /\ last.CreationStatus = "STATUS_ACCESS_DENIED"


\* the final component of the launched image is a valid entry of the last
\* accepted SetBannedApps request
LaunchMatchesAccepted ==
    \E e \in acceptedNames : SameName(FinalComponentOf(LaunchPath), e)

\* C13: a list accepted while the block-apps flag was off stays stored; from
\* then on, with no further SetBannedApps request, a launch matching it is
\* denied whenever a later SetPolicy has the flag on and allowed whenever a
\* later SetPolicy has it off again.
C13_StoredListFollowsFlag ==
    (LaunchChecked /\ acceptedFlagOff /\ LaunchMatchesAccepted)
        => (last.CreationStatus = "STATUS_ACCESS_DENIED" <=> BlockAppsSet)


\* the names the launch check compares against: the entries below BannedAppCount
ScannedNames ==
    { BannedString(i).Buffer : i \in { j \in BannedIndex : j < BannedAppCount } }

SetBannedAppsAccepted ==
    last.op = "IOCTL_TAD_SET_BANNED_APPS" /\ last.status = "STATUS_SUCCESS"

\* C14: an accepted SetBannedApps request leaves exactly its valid entries
\* (non-empty, NUL-terminated within the field) in force, wherever its
\* skipped entries are and however many: the names the launch check compares
\* against are the valid entries of the request, and with the block-apps flag
\* set a launch whose filename matches a valid entry is denied.
C14_EveryValidEntryEnforced ==
    /\ SetBannedAppsAccepted => ScannedNames = acceptedNames
    /\ (LaunchChecked /\ BlockAppsSet /\ LaunchMatchesAccepted)
           => last.CreationStatus = "STATUS_ACCESS_DENIED"


SetBannedAppsDone == last.op = "IOCTL_TAD_SET_BANNED_APPS"

\* C15: a SetBannedApps request with Count above 32 is rejected, with
\* invalid-parameter when it comes from the registered process in a buffer
\* of the full size, and leaves BannedApps, their storage and BannedAppCount
\* as they were: the list changes only in the service of a request with
\* Count <= 32; in every reachable state BannedAppCount <= 32.
C15_OversizedCountRejected ==
    /\ [](BannedAppCount <= TAD_MAX_BANNED_APPS)
    /\ [][(SetBannedAppsDone' /\ last'.irp.SystemBuffer[1].Count > TAD_MAX_BANNED_APPS)
              => /\ last'.status # "STATUS_SUCCESS"
                 /\ (/\ last'.irp.InputBufferLength >= SizeofBannedAppsInput
                     /\ TadIsCallerProtectedAgent(last'.caller))
                        => last'.status = "STATUS_INVALID_PARAMETER"
                 /\ UNCHANGED bannedVars]_vars
    /\ [][bannedVars' # bannedVars
              => /\ inFlight["SetBannedApps"] # << >>
                 /\ inFlight["SetBannedApps"][1].irp.SystemBuffer[1].Count
                        <= TAD_MAX_BANNED_APPS]_vars

\* a request with Count 33 has been rejected while a list was in force
C15_Witness ==
    /\ SetBannedAppsDone
    /\ last.irp.SystemBuffer[1].Count > TAD_MAX_BANNED_APPS
    /\ last.status = "STATUS_INVALID_PARAMETER"
    /\ BannedAppCount > 0


\* the protected identities: registrations of every kind, valid or not
NextPid ==
    \/ ProtectPid(Pids, ProtectPidIrps)
    \/ ProtectUi(Pids, ProtectUiIrps)

SpecPid == Init /\ [][NextPid]_vars

ProtectPidDone == last.op = "IOCTL_TAD_PROTECT_PID"

\* a TAD_PROTECT_PID_INPUT of the full size that names no process to protect
BadProtectPidTarget(irp) ==
    /\ irp.InputBufferLength >= SizeofProtectPidInput
    /\ irp.SystemBuffer # NULLBUF
    /\ \/ irp.SystemBuffer[1].TargetPid = 0
       \/ irp.SystemBuffer[1].Flags # 0
       \/ irp.SystemBuffer[1].TargetPid \notin Pids

\* C16: ProtectPid with TargetPid 0, with non-zero Flags, or with a pid that
\* resolves to no process is rejected with invalid-parameter and leaves
\* ProtectedPid, the reference held on the registered process and
\* AgentProcess (the identity of the caller checks) unchanged.
C16_BadTargetRejected ==
    [][(ProtectPidDone' /\ BadProtectPidTarget(last'.irp))
           => /\ last'.status = "STATUS_INVALID_PARAMETER"
              /\ UNCHANGED << ProtectedPid, AgentProcess, ObjRefs >>]_vars

\* a registration of a pid that resolves to no process has been rejected
\* while process 2 was registered, and process 2 still is
C16_Witness ==
    /\ ProtectPidDone
    /\ last.irp.SystemBuffer # NULLBUF
    /\ last.irp.SystemBuffer[1].TargetPid = MaxPid + 1
    /\ last.irp.SystemBuffer[1].Flags = 0
    /\ last.status = "STATUS_INVALID_PARAMETER"
    /\ AgentProcess = 2
    /\ ProtectedPid = 2
    /\ ObjRefs[2] = 1


SetPolicyDone == last.op = "IOCTL_TAD_SET_POLICY"

SizeofSetUserRoleInput == 144
SizeofHardLockInput == 8
SizeofStealthInput == 8

IoctlSetUserRole(caller, irp) ==
    LET ioctl == "IOCTL_TAD_SET_USER_ROLE"
        buf == irp.SystemBuffer
    IN  /\ DeviceObject
        /\ UNCHANGED << gateVars, regVars, pidVars, policyVars, bannedVars, now,
                        heartbeatVars, InputLocked, StealthActive, StealthFlags >>
        /\ IF irp.InputBufferLength < SizeofSetUserRoleInput
           THEN /\ Complete(ioctl, caller, irp, "STATUS_BUFFER_TOO_SMALL", 0)
                /\ UNCHANGED CurrentUserRole
           ELSE IF buf = NULLBUF
           THEN /\ Complete(ioctl, caller, irp, "STATUS_INVALID_PARAMETER", 0)
                /\ UNCHANGED CurrentUserRole
           ELSE IF CallerRejected(caller)
           THEN /\ Complete(ioctl, caller, irp, "STATUS_ACCESS_DENIED", 0)
                /\ UNCHANGED CurrentUserRole
           ELSE /\ CurrentUserRole' = buf[1].Role
                /\ Complete(ioctl, caller, irp, "STATUS_SUCCESS", 0)

\* mutant: the caller is tested before the length
IoctlHardLock_CallerFirst(caller, irp) ==
    LET ioctl == "IOCTL_TAD_HARD_LOCK"
        buf == irp.SystemBuffer
    IN  /\ DeviceObject
        /\ UNCHANGED << gateVars, regVars, pidVars, policyVars, bannedVars, now,
                        heartbeatVars, CurrentUserRole, StealthActive, StealthFlags >>
        /\ IF ~TadIsCallerProtectedAgent(caller)
           THEN /\ Complete(ioctl, caller, irp, "STATUS_ACCESS_DENIED", 0)
                /\ UNCHANGED InputLocked
           ELSE IF irp.InputBufferLength < SizeofHardLockInput
           THEN /\ Complete(ioctl, caller, irp, "STATUS_BUFFER_TOO_SMALL", 0)
                /\ UNCHANGED InputLocked
           ELSE /\ InputLocked' = IF buf[1].Enable # 0 THEN 1 ELSE 0
                /\ Complete(ioctl, caller, irp, "STATUS_SUCCESS", 0)

IoctlHardLock(caller, irp) ==
    LET ioctl == "IOCTL_TAD_HARD_LOCK"
        buf == irp.SystemBuffer
    IN  /\ DeviceObject
        /\ UNCHANGED << gateVars, regVars, pidVars, policyVars, bannedVars, now,
                        heartbeatVars, CurrentUserRole, StealthActive, StealthFlags >>
        /\ IF irp.InputBufferLength < SizeofHardLockInput
           THEN /\ Complete(ioctl, caller, irp, "STATUS_BUFFER_TOO_SMALL", 0)
                /\ UNCHANGED InputLocked
           ELSE IF ~TadIsCallerProtectedAgent(caller)
           THEN /\ Complete(ioctl, caller, irp, "STATUS_ACCESS_DENIED", 0)
                /\ UNCHANGED InputLocked
           ELSE /\ InputLocked' = IF buf[1].Enable # 0 THEN 1 ELSE 0
                /\ Complete(ioctl, caller, irp, "STATUS_SUCCESS", 0)

IoctlStealth(caller, irp) ==
    LET ioctl == "IOCTL_TAD_STEALTH"
        buf == irp.SystemBuffer
    IN  /\ DeviceObject
        /\ UNCHANGED << gateVars, regVars, pidVars, policyVars, bannedVars, now,
                        heartbeatVars, CurrentUserRole, InputLocked >>
        /\ IF irp.InputBufferLength < SizeofStealthInput
           THEN /\ Complete(ioctl, caller, irp, "STATUS_BUFFER_TOO_SMALL", 0)
                /\ UNCHANGED << StealthActive, StealthFlags >>
           ELSE IF ~TadIsCallerProtectedAgent(caller)
           THEN /\ Complete(ioctl, caller, irp, "STATUS_ACCESS_DENIED", 0)
                /\ UNCHANGED << StealthActive, StealthFlags >>
           ELSE IF buf[1].Enable # 0
           THEN /\ StealthActive' = 1
                /\ StealthFlags' = buf[1].Flags
                /\ Complete(ioctl, caller, irp, "STATUS_SUCCESS", 0)
           ELSE /\ StealthActive' = 0
                /\ StealthFlags' = 0
                /\ Complete(ioctl, caller, irp, "STATUS_SUCCESS", 0)

SetUserRole(callers, irps) ==
    \E caller \in callers, irp \in irps :
        IoctlSetUserRole(caller, irp) /\ UNCHANGED << histVars, flightVars, moreHistVars >>

HardLock(callers, irps) ==
    \E caller \in callers, irp \in irps :
        IoctlHardLock(caller, irp) /\ UNCHANGED << histVars, flightVars, moreHistVars >>

Stealth(callers, irps) ==
    \E caller \in callers, irp \in irps :
        IoctlStealth(caller, irp) /\ UNCHANGED << histVars, flightVars, moreHistVars >>

\* TAD_SET_USER_ROLE_INPUT (teacher), TAD_HARD_LOCK_INPUT, TAD_STEALTH_INPUT
OneSetUserRoleIrp ==
    { Irp(SizeofSetUserRoleInput, 0, << [Role |-> 1, SessionId |-> 1, UserSid |-> << >>] >>) }

OneHardLockIrp ==
    { Irp(SizeofHardLockInput, 0, << [Enable |-> 1, Flags |-> 0] >>) }

OneStealthIrp ==
    { Irp(SizeofStealthInput, 0, << [Enable |-> 1, Flags |-> 5] >>) }

\* the secret and the secret with its last byte changed
TwoUnlockIrps ==
    { Irp(SizeofUnlockInput, 0, << [AuthKey |-> PreSharedSecret] >>),
      Irp(SizeofUnlockInput, 0,
          << [AuthKey |-> [PreSharedSecret EXCEPT ![TAD_AUTH_KEY_SIZE] = 34]] >>) }

\* the command bridge: every opcode that checks its caller, issued by the
\* process that registers itself and by another one
NextBridge ==
    \/ ProtectPid({ 1 }, OneProtectPidIrp)
    \/ Unlock(AgentAndOther, TwoUnlockIrps)
    \/ SetUserRole(AgentAndOther, OneSetUserRoleIrp)
    \/ SetPolicy(AgentAndOther, OnePolicyIrp)
    \/ HardLock(AgentAndOther, OneHardLockIrp)
    \/ ProtectUi(AgentAndOther, OneProtectUiIrp)
    \/ Stealth(AgentAndOther, OneStealthIrp)
    \/ SetBannedApps(AgentAndOther, OneBannedAppsIrp)

SpecBridge == Init /\ [][NextBridge]_vars


\* the opcodes that check their caller, with the size of their payload
CheckedOpcodes ==
    [IOCTL_TAD_UNLOCK |-> SizeofUnlockInput,
     IOCTL_TAD_SET_USER_ROLE |-> SizeofSetUserRoleInput,
     IOCTL_TAD_SET_POLICY |-> SizeofPolicyBuffer,
     IOCTL_TAD_HARD_LOCK |-> SizeofHardLockInput,
     IOCTL_TAD_PROTECT_UI |-> SizeofProtectUiInput,
     IOCTL_TAD_STEALTH |-> SizeofStealthInput,
     IOCTL_TAD_SET_BANNED_APPS |-> SizeofBannedAppsInput]

\* the record is a well-formed request for one of those opcodes
WellFormedChecked(req) ==
    /\ req.op \in DOMAIN CheckedOpcodes
    /\ req.irp.InputBufferLength >= CheckedOpcodes[req.op]
    /\ req.irp.SystemBuffer # NULLBUF

enforcementVars ==
    << gateVars, regVars, pidVars, policyVars, bannedVars, heartbeatVars, modeVars >>

\* C18: once a process is registered, every well-formed Unlock, SetUserRole,
\* SetPolicy, HardLock, ProtectUi, Stealth or SetBannedApps request from
\* another process is rejected with access-denied and changes no enforcement
\* state: the secret from a foreign process does not set AllowUnload and a
\* wrong key from one does not increment FailedUnlockAttempts.
C18_ForeignCallerRejected ==
    [][(WellFormedChecked(last') /\ AgentProcess # NULL /\ last'.caller # AgentProcess)
           => /\ last'.status = "STATUS_ACCESS_DENIED"
              /\ UNCHANGED enforcementVars]_vars

\* process 2 has presented the secret while process 1 is registered, and
\* has been turned away with the gate still closed
C18_Witness ==
    /\ last.op = "IOCTL_TAD_UNLOCK"
    /\ last.caller = 2
    /\ AgentProcess = 1
    /\ last.irp.SystemBuffer[1].AuthKey = PreSharedSecret
    /\ last.status = "STATUS_ACCESS_DENIED"
    /\ AllowUnload = 0
    /\ FailedUnlockAttempts = 0


\* the status a well-formed request of the bridge specification completes
\* with when its caller is not in question: a wrong key, and any key during
\* a lockout, is refused for the key's sake
NormalStatus(req) ==
    IF req.op = "IOCTL_TAD_UNLOCK"
          /\ (\/ req.irp.SystemBuffer[1].AuthKey # PreSharedSecret
              \/ (FailedUnlockAttempts >= TAD_MAX_UNLOCK_ATTEMPTS /\ now < LockoutUntil))
    THEN "STATUS_ACCESS_DENIED"
    ELSE "STATUS_SUCCESS"

\* the effect of an accepted request, in the state it leaves
TakesEffect(req) ==
    LET p == req.irp.SystemBuffer[1]
    IN  CASE req.op = "IOCTL_TAD_UNLOCK" -> AllowUnload' = 1 /\ FailedUnlockAttempts' = 0
          [] req.op = "IOCTL_TAD_SET_USER_ROLE" -> CurrentUserRole' = p.Role
          [] req.op = "IOCTL_TAD_SET_POLICY" -> CurrentPolicy' = p /\ PolicyValid' = 1
          [] req.op = "IOCTL_TAD_HARD_LOCK" -> InputLocked' = IF p.Enable # 0 THEN 1 ELSE 0
          [] req.op = "IOCTL_TAD_PROTECT_UI" ->
                 ProtectedUiPid' = IF p.Protect # 0 THEN p.TargetPid ELSE NULL
          [] req.op = "IOCTL_TAD_STEALTH" ->
                 StealthActive' = IF p.Enable # 0 THEN 1 ELSE 0
          [] req.op = "IOCTL_TAD_SET_BANNED_APPS" -> BannedAppCount' = p.Count

\* C19: while no process has been registered (before the first successful
\* ProtectPid), the caller check is skipped for Unlock, SetUserRole,
\* SetPolicy, HardLock, ProtectUi, Stealth and SetBannedApps: a well-formed
\* request from any process completes as it would for the registered
\* process, and an accepted one takes effect.
C19_BootstrapSkipsCallerCheck ==
    [][(WellFormedChecked(last') /\ AgentProcess = NULL)
           => /\ last'.status = NormalStatus(last')
              /\ last'.status = "STATUS_SUCCESS" => TakesEffect(last')]_vars


(***************************************************************************)
(* 5. Heartbeat watchdog: IOCTL_TAD_HEARTBEAT and TadHeartbeatDpcRoutine.  *)
(* The DPC runs at DISPATCH_LEVEL and can interrupt the handler, which     *)
(* sets HeartbeatAlive first and fills and completes the request after.    *)
(***************************************************************************)
SizeofHeartbeatOutput == 28
TAD_VERSION_MAJOR == 26500
TAD_VERSION_MINOR == 181

\* mutant: the exchange comes before the size check
HeartbeatMark_BeforeCheck(caller, irp) ==
    /\ DeviceObject
    /\ inFlight["Heartbeat"] = << >>
    /\ HeartbeatAlive' = 1
    /\ marksSinceTick' = TRUE
    /\ IF irp.OutputBufferLength < SizeofHeartbeatOutput
       THEN /\ Complete("IOCTL_TAD_HEARTBEAT", caller, irp, "STATUS_BUFFER_TOO_SMALL", 0)
            /\ UNCHANGED inFlight
       ELSE /\ inFlight' = [inFlight EXCEPT
                               !["Heartbeat"] = << [caller |-> caller, irp |-> irp] >>]
            /\ last' = [op |-> "InterlockedExchange", caller |-> caller, irp |-> irp]
    /\ UNCHANGED << gateVars, regVars, pidVars, policyVars, bannedVars, now, histVars,
                    LastHeartbeatTime, modeVars, BannedAppsLock, acceptedPolicy,
                    committedApps, completedSinceTick >>

\* the size check and InterlockedExchange(&g_Tad.HeartbeatAlive, 1)
HeartbeatMark(caller, irp) ==
    /\ DeviceObject
    /\ inFlight["Heartbeat"] = << >>
    /\ IF irp.OutputBufferLength < SizeofHeartbeatOutput
       THEN /\ Complete("IOCTL_TAD_HEARTBEAT", caller, irp, "STATUS_BUFFER_TOO_SMALL", 0)
            /\ UNCHANGED << HeartbeatAlive, inFlight, marksSinceTick >>
       ELSE /\ HeartbeatAlive' = 1
            /\ inFlight' = [inFlight EXCEPT
                               !["Heartbeat"] = << [caller |-> caller, irp |-> irp] >>]
            /\ marksSinceTick' = TRUE
            /\ last' = [op |-> "InterlockedExchange", caller |-> caller, irp |-> irp]
    /\ UNCHANGED << gateVars, regVars, pidVars, policyVars, bannedVars, now, histVars,
                    LastHeartbeatTime, modeVars, BannedAppsLock, acceptedPolicy,
                    committedApps, completedSinceTick >>

\* mutant: the failure counter is left as RtlZeroMemory made it
HeartbeatOutput_NoCounter ==
    [DriverVersionMajor |-> TAD_VERSION_MAJOR,
     DriverVersionMinor |-> TAD_VERSION_MINOR,
     ProtectedPid |-> ProtectedPid,
     ProcessProtectionActive |-> IF ObCallbackHandle THEN 1 ELSE 0,
     FileProtectionActive |-> IF FilterHandle THEN 1 ELSE 0,
     UnlockPermitted |-> IF AllowUnload # 0 THEN 1 ELSE 0,
     HeartbeatAlive |-> 1,
     FailedUnlockAttempts |-> 0,
     CurrentUserRole |-> CurrentUserRole,
     PolicyValid |-> PolicyValid]

\* the TAD_HEARTBEAT_OUTPUT the handler fills in after RtlZeroMemory
HeartbeatOutput ==
    [DriverVersionMajor |-> TAD_VERSION_MAJOR,
     DriverVersionMinor |-> TAD_VERSION_MINOR,
     ProtectedPid |-> ProtectedPid,
     ProcessProtectionActive |-> IF ObCallbackHandle THEN 1 ELSE 0,
     FileProtectionActive |-> IF FilterHandle THEN 1 ELSE 0,
     UnlockPermitted |-> IF AllowUnload # 0 THEN 1 ELSE 0,
     HeartbeatAlive |-> 1,
     FailedUnlockAttempts |-> FailedUnlockAttempts,
     CurrentUserRole |-> CurrentUserRole,
     PolicyValid |-> PolicyValid]

\* KeQuerySystemTime(&g_Tad.LastHeartbeatTime), the TAD_HEARTBEAT_OUTPUT and
\* the completion of the request
HeartbeatComplete ==
    /\ inFlight["Heartbeat"] # << >>
    /\ LET r == inFlight["Heartbeat"][1]
       IN  last' = [op |-> "IOCTL_TAD_HEARTBEAT", caller |-> r.caller, irp |-> r.irp,
                    status |-> "STATUS_SUCCESS", Information |-> SizeofHeartbeatOutput,
                    output |-> HeartbeatOutput]
    /\ LastHeartbeatTime' = now
    /\ inFlight' = [inFlight EXCEPT !["Heartbeat"] = << >>]
    /\ completedSinceTick' = TRUE
    /\ UNCHANGED << gateVars, regVars, pidVars, policyVars, bannedVars, now, histVars,
                    HeartbeatAlive, modeVars, BannedAppsLock, acceptedPolicy,
                    committedApps, marksSinceTick >>

\* mutant: the DPC reads the flag and leaves it
AliveAfterDpc_Kept(alive) == alive

\* InterlockedExchange(&g_Tad.HeartbeatAlive, 0) stores 0
AliveAfterDpc(alive) == 0

\* mutant: the DPC waits for the mutex of the banned list
TadHeartbeatDpcRoutine_TakesLock ==
    /\ TimerActive
    /\ MutexAvailable(BannedAppsLock)
    /\ HeartbeatAlive' = AliveAfterDpc(HeartbeatAlive)
    /\ last' = [op |-> "TadHeartbeatDpcRoutine", lost |-> HeartbeatAlive = 0]
    /\ marksSinceTick' = FALSE
    /\ completedSinceTick' = FALSE
    /\ UNCHANGED << gateVars, regVars, pidVars, policyVars, bannedVars, now, histVars,
                    LastHeartbeatTime, modeVars, flightVars, acceptedPolicy,
                    committedApps >>

\* one firing of the periodic timer; "HEARTBEAT LOST" is logged when the
\* exchange returns 0
TadHeartbeatDpcRoutine ==
    /\ TimerActive
    /\ HeartbeatAlive' = AliveAfterDpc(HeartbeatAlive)
    /\ last' = [op |-> "TadHeartbeatDpcRoutine", lost |-> HeartbeatAlive = 0]
    /\ marksSinceTick' = FALSE
    /\ completedSinceTick' = FALSE
    /\ UNCHANGED << gateVars, regVars, pidVars, policyVars, bannedVars, now, histVars,
                    LastHeartbeatTime, modeVars, flightVars, acceptedPolicy,
                    committedApps >>

Heartbeat(callers, irps) ==
    \E caller \in callers, irp \in irps : HeartbeatMark(caller, irp)

\* a buffer for the whole TAD_HEARTBEAT_OUTPUT and one a byte short
HeartbeatIrps ==
    { Irp(0, SizeofHeartbeatOutput, << "TAD_HEARTBEAT_OUTPUT" >>),
      Irp(0, SizeofHeartbeatOutput - 1, << "TAD_HEARTBEAT_OUTPUT" >>) }

\* the watchdog: heartbeats from any process against the timer
NextHb ==
    \/ Heartbeat(AgentAndOther, HeartbeatIrps)
    \/ HeartbeatComplete
    \/ TadHeartbeatDpcRoutine
    \/ Tick
    \/ ProtectPid({ 1 }, OneProtectPidIrp)

SpecHb == Init /\ [][NextHb]_vars

DpcDone == last.op = "TadHeartbeatDpcRoutine"

\* C20 as stated: a watchdog tick flags liveness loss if and only if no
\* Heartbeat request completed successfully since the previous tick (since
\* load, for the first), and leaves HeartbeatAlive 0, under every
\* interleaving of requests and ticks.
C20_LossIffNoneCompleted ==
    [][DpcDone' => /\ last'.lost <=> ~completedSinceTick
                   /\ HeartbeatAlive' = 0]_vars

\* C20: a watchdog tick flags liveness loss if and only if no Heartbeat
\* request has set HeartbeatAlive since the previous tick (since load, for
\* the first): a request that set it and completed between two ticks makes
\* the later tick see it set, a request that set it before a tick and
\* completed after counts for that tick alone, a request refused for its
\* buffer does not count; every tick leaves HeartbeatAlive 0.
C20_LossIffNoneMarked ==
    [][DpcDone' => /\ last'.lost <=> ~marksSinceTick
                   /\ (completedSinceTick /\ marksSinceTick
                          /\ inFlight["Heartbeat"] = << >>) => ~last'.lost
                   /\ HeartbeatAlive' = 0]_vars

\* a tick has found the flag set by a request that is still in progress
C20_Witness ==
    /\ DpcDone
    /\ ~last.lost
    /\ inFlight["Heartbeat"] # << >>
    /\ HeartbeatAlive = 0


(***************************************************************************)
(* 6. The whole driver: every opcode, every callback and the watchdog,     *)
(* one well-formed request of each kind.                                   *)
(***************************************************************************)
\* Enable on and off
HardLockIrps ==
    { Irp(SizeofHardLockInput, 0, << [Enable |-> e, Flags |-> 0] >>) : e \in { 0, 1 } }

StealthIrps ==
    { Irp(SizeofStealthInput, 0, << [Enable |-> 1, Flags |-> 5] >>),
      Irp(SizeofStealthInput, 0, << [Enable |-> 0, Flags |-> 0] >>) }

OneUnlockIrp ==
    { Irp(SizeofUnlockInput, 0, << [AuthKey |-> PreSharedSecret] >>) }

NextWhole ==
    \/ ProtectPid({ 1 }, OneProtectPidIrp)
    \/ Unlock({ 1 }, OneUnlockIrp)
    \/ Heartbeat({ 1 }, HeartbeatIrps)
    \/ HeartbeatComplete
    \/ SetUserRole({ 1 }, OneSetUserRoleIrp)
    \/ SetPolicy({ 1 }, OnePolicyIrp)
    \/ HardLock({ 1 }, HardLockIrps)
    \/ ProtectUi({ 1 }, OneProtectUiIrp)
    \/ Stealth({ 1 }, StealthIrps)
    \/ SetBannedApps({ 1 }, OneBannedAppsIrp)
    \/ TadHeartbeatDpcRoutine
    \/ ObProcessPre({ 3 }, OneObProcessOp)
    \/ ObThreadPre({ 3 }, OneObThreadOp)
    \/ PreSetInformation(OneSetInformation)
    \/ ProcessNotify({ 3 }, OneCreateInfo)

SpecWhole == Init /\ [][NextWhole]_vars

SizeofAlertOutput == 280
TadAlertNone == 0

\* no alert is ever queued: the handler returns an empty TAD_ALERT_OUTPUT
IoctlReadAlert(caller, irp) ==
    LET ioctl == "IOCTL_TAD_READ_ALERT"
    IN  /\ DeviceObject
        /\ UNCHANGED << gateVars, regVars, pidVars, policyVars, bannedVars, now,
                        histVars, quietVars >>
        /\ IF irp.OutputBufferLength < SizeofAlertOutput
           THEN Complete(ioctl, caller, irp, "STATUS_BUFFER_TOO_SMALL", 0)
           ELSE last' = [op |-> ioctl, caller |-> caller, irp |-> irp,
                         status |-> "STATUS_SUCCESS", Information |-> SizeofAlertOutput,
                         output |-> [AlertType |-> TadAlertNone, Timestamp |-> now,
                                     SourcePid |-> 0, Reserved |-> 0, Detail |-> << >>]]

ReadAlert(callers, irps) ==
    \E caller \in callers, irp \in irps : IoctlReadAlert(caller, irp)

OneReadAlertIrp == { Irp(0, SizeofAlertOutput, << "TAD_ALERT_OUTPUT" >>) }

OneHeartbeatIrp == { Irp(0, SizeofHeartbeatOutput, << "TAD_HEARTBEAT_OUTPUT" >>) }

\* the requests of a set, the same with the input or output length one
\* byte less, and the request with no buffer at all
AndShortInput(irps) ==
    irps \cup { [irp EXCEPT !.InputBufferLength = @ - 1] : irp \in irps }
         \cup { Irp(0, 0, NULLBUF) }

AndShortOutput(irps) ==
    irps \cup { [irp EXCEPT !.OutputBufferLength = @ - 1] : irp \in irps }
         \cup { Irp(0, 0, NULLBUF) }

OnlyShortInput(irps) == AndShortInput(irps) \ irps

\* every opcode, from the registered process and from another, with a
\* buffer one byte short and with none, and most with one of the full length
NextLengths ==
    \/ ProtectPid(AgentAndOther, AndShortInput(OneProtectPidIrp))
    \/ Unlock(AgentAndOther, AndShortInput(OneUnlockIrp))
    \/ Heartbeat(AgentAndOther, AndShortOutput(OneHeartbeatIrp))
    \/ HeartbeatComplete
    \/ SetUserRole(AgentAndOther, OnlyShortInput(OneSetUserRoleIrp))
    \/ SetPolicy(AgentAndOther, AndShortInput(OnePolicyIrp))
    \/ ReadAlert(AgentAndOther, AndShortOutput(OneReadAlertIrp))
    \/ HardLock(AgentAndOther, AndShortInput(OneHardLockIrp))
    \/ ProtectUi(AgentAndOther, OnlyShortInput(OneProtectUiIrp))
    \/ Stealth(AgentAndOther, OnlyShortInput(OneStealthIrp))
    \/ SetBannedApps(AgentAndOther, AndShortInput(OneBannedAppsIrp))

SpecLengths == Init /\ [][NextLengths]_vars

\* sizeof of the payload of each opcode, and the opcodes whose payload is
\* the output
PayloadSize ==
    [IOCTL_TAD_PROTECT_PID |-> SizeofProtectPidInput,
     IOCTL_TAD_UNLOCK |-> SizeofUnlockInput,
     IOCTL_TAD_HEARTBEAT |-> SizeofHeartbeatOutput,
     IOCTL_TAD_SET_USER_ROLE |-> SizeofSetUserRoleInput,
     IOCTL_TAD_SET_POLICY |-> SizeofPolicyBuffer,
     IOCTL_TAD_READ_ALERT |-> SizeofAlertOutput,
     IOCTL_TAD_HARD_LOCK |-> SizeofHardLockInput,
     IOCTL_TAD_PROTECT_UI |-> SizeofProtectUiInput,
     IOCTL_TAD_STEALTH |-> SizeofStealthInput,
     IOCTL_TAD_SET_BANNED_APPS |-> SizeofBannedAppsInput]

OutputOpcodes == { "IOCTL_TAD_HEARTBEAT", "IOCTL_TAD_READ_ALERT" }

PayloadLength(req) ==
    IF req.op \in OutputOpcodes THEN req.irp.OutputBufferLength
                                ELSE req.irp.InputBufferLength

Undersized(req) ==
    /\ req.op \in DOMAIN PayloadSize
    /\ PayloadLength(req) < PayloadSize[req.op]

\* C22: for each of the ten opcodes, a request whose input buffer (output
\* buffer for Heartbeat and ReadAlert) is shorter than the payload of the
\* opcode completes with STATUS_BUFFER_TOO_SMALL and no bytes returned,
\* from the registered process and from any other, before and after
\* registration, and changes no enforcement state; no handler gets past
\* its length check with such a buffer.
C22_UndersizedRejected ==
    [][/\ Undersized(last') => /\ last'.status = "STATUS_BUFFER_TOO_SMALL"
                               /\ last'.Information = 0
                               /\ UNCHANGED enforcementVars
       /\ last'.op = "InterlockedExchange"
            => last'.irp.OutputBufferLength >= SizeofHeartbeatOutput]_vars

\* another process than the registered one has sent SetBannedApps with a
\* buffer one byte short and has been told so, the driver being configured
C22_Witness ==
    /\ last.op = "IOCTL_TAD_SET_BANNED_APPS"
    /\ last.caller = 2
    /\ AgentProcess = 1
    /\ last.irp.InputBufferLength = SizeofBannedAppsInput - 1
    /\ last.status = "STATUS_BUFFER_TOO_SMALL"
    /\ BannedAppCount > 0 /\ PolicyValid = 1 /\ InputLocked = 1


(***************************************************************************)
(* The frame of a refused Unlock and the resets of the failure counter     *)
(***************************************************************************)
\* the step is the handling of an Unlock request that reaches the key
\* comparison (well-formed, permitted caller, no lockout running) and
\* presents another key than the secret
WrongSecretStep ==
    /\ PermittedUnlockStep
    /\ ~(wrongRun >= 5 /\ now < runLockEnd)
    /\ ~PresentsSecret(last'.irp)

\* C23 as stated: an Unlock request rejected for a wrong secret changes
\* nothing but the failure counter: AllowUnload, LockoutUntil, the
\* protected process, the role, the policy, the banned list and the
\* heartbeat record are unchanged, also on the failure that reaches the
\* limit.
C23_OnlyCounterChanges ==
    [][WrongSecretStep
          => /\ last'.status = "STATUS_ACCESS_DENIED"
             /\ UNCHANGED << AllowUnload, LockoutUntil, pidVars, CurrentUserRole,
                             policyVars, bannedVars, heartbeatVars >>]_vars

\* C23: an Unlock request rejected for a wrong secret changes nothing but
\* the failure counter and, on the failure that takes the counter to the
\* limit, LockoutUntil, which becomes the current time plus the lockout
\* duration; below the limit LockoutUntil is unchanged; AllowUnload, the
\* protected process, the role, the policy, the banned list, the heartbeat
\* record, the registrations, the input lock and the stealth fields are
\* unchanged in both cases.
C23_CounterAndWindowChange ==
    [][WrongSecretStep
          => /\ last'.status = "STATUS_ACCESS_DENIED"
             /\ FailedUnlockAttempts' = wrongRun'
             /\ LockoutUntil' = IF FailedUnlockAttempts' >= TAD_MAX_UNLOCK_ATTEMPTS
                                THEN now + (-TAD_LOCKOUT_DURATION)
                                ELSE LockoutUntil
             /\ UNCHANGED << AllowUnload, regVars, pidVars, policyVars, bannedVars,
                             heartbeatVars, modeVars >>]_vars

\* the fifth wrong key in a row has been refused: the counter is at the
\* limit and the window has been opened, with the driver configured
C23_Witness ==
    /\ last.op = "IOCTL_TAD_UNLOCK"
    /\ last.status = "STATUS_ACCESS_DENIED"
    /\ ~PresentsSecret(last.irp)
    /\ FailedUnlockAttempts = TAD_MAX_UNLOCK_ATTEMPTS
    /\ wrongRun = 5
    /\ LockoutUntil = now + (-TAD_LOCKOUT_DURATION)
    /\ AgentProcess # NULL /\ PolicyValid = 1 /\ CurrentUserRole # TadRoleUnknown


\* the step is the handling of an Unlock request that is accepted for
\* evaluation after a lockout whose window has elapsed
WindowExpiredStep ==
    /\ PermittedUnlockStep
    /\ FailedUnlockAttempts >= TAD_MAX_UNLOCK_ATTEMPTS
    /\ now >= LockoutUntil

\* C24 as stated: FailedUnlockAttempts is reset to 0 in two situations and
\* in no other: when AllowUnload goes from 0 to 1, and when a lockout
\* window has elapsed and a new Unlock request is accepted for evaluation
\* (the evaluation then leaves it at 0 or, for a wrong key, at 1); in every
\* other step it is unchanged or incremented by one.
C24_ResetOnlyOnOpeningOrExpiry ==
    [][/\ (AllowUnload = 0 /\ AllowUnload' = 1) => FailedUnlockAttempts' = 0
       /\ WindowExpiredStep => FailedUnlockAttempts' \in { 0, 1 }
       /\ ~((AllowUnload = 0 /\ AllowUnload' = 1) \/ WindowExpiredStep)
            => FailedUnlockAttempts' \in { FailedUnlockAttempts,
                                           FailedUnlockAttempts + 1 }]_vars

\* C24: FailedUnlockAttempts is reset to 0 in two situations and in no
\* other: when an Unlock request presents the secret and is accepted (which
\* writes 1 to AllowUnload, whether it was 0 or already 1), and when a
\* lockout window has elapsed and a new Unlock request is accepted for
\* evaluation (the evaluation then leaves it at 0 or, for a wrong key, at
\* 1); in every other step it is unchanged or incremented by one.
C24_ResetOnlyOnSuccessOrExpiry ==
    [][/\ (last'.op = "IOCTL_TAD_UNLOCK" /\ last'.status = "STATUS_SUCCESS")
            => FailedUnlockAttempts' = 0 /\ AllowUnload' = 1
       /\ WindowExpiredStep => FailedUnlockAttempts' \in { 0, 1 }
       /\ ~((PermittedUnlockStep /\ last'.status = "STATUS_SUCCESS") \/ WindowExpiredStep)
            => FailedUnlockAttempts' \in { FailedUnlockAttempts,
                                           FailedUnlockAttempts + 1 }]_vars

\* the secret has been accepted with the gate already open and wrong keys
\* counted since it opened
C24_Witness ==
    /\ last.op = "IOCTL_TAD_UNLOCK"
    /\ last.status = "STATUS_SUCCESS"
    /\ FailedUnlockAttempts = 0
    /\ AllowUnload = 1
    /\ runLockEnd > 0


(***************************************************************************)
(* 8. IOCTL_TAD_PROTECT_PID statement by statement.  The dispatch routine  *)
(* runs in the thread of the caller and takes no lock, so requests of      *)
(* several threads interleave; inFlight["ProtectPid"] holds the requests   *)
(* that are past PsLookupProcessByProcessId.                               *)
(***************************************************************************)
MaxInFlight == 2
\* the references counted on one process object
MaxRefs == 2

ProtectPidAccepts(irp) ==
    /\ irp.InputBufferLength >= SizeofProtectPidInput
    /\ irp.SystemBuffer # NULLBUF
    /\ irp.SystemBuffer[1].TargetPid # 0
    /\ irp.SystemBuffer[1].Flags = 0
    /\ PsLookupSucceeds(irp.SystemBuffer[1].TargetPid)

\* the checks and PsLookupProcessByProcessId, which takes a reference
ProtectPidLookup(caller, irp) ==
    IF ~ProtectPidAccepts(irp)
    THEN IoctlProtectPid(caller, irp) /\ UNCHANGED << histVars, quietVars >>
    ELSE LET proc == irp.SystemBuffer[1].TargetPid
         IN  /\ DeviceObject
             /\ Len(inFlight["ProtectPid"]) < MaxInFlight
             /\ ObjRefs[proc] < MaxRefs
             /\ ObjRefs' = [ObjRefs EXCEPT ![proc] = @ + 1]
             /\ inFlight' = [inFlight EXCEPT !["ProtectPid"] =
                                Append(@, [caller |-> caller, irp |-> irp, proc |-> proc,
                                           released |-> FALSE, stored |-> FALSE])]
             /\ last' = [op |-> "PsLookupProcessByProcessId", caller |-> caller,
                         irp |-> irp]
             /\ UNCHANGED << gateVars, regVars, policyVars, bannedVars, now, histVars,
                             ProtectedPid, ProtectedUiPid, AgentProcess, heartbeatVars,
                             modeVars, BannedAppsLock, moreHistVars >>

\* if (g_Tad.AgentProcess) ObDereferenceObject(g_Tad.AgentProcess);
ProtectPidRelease(k) ==
    /\ k \in DOMAIN inFlight["ProtectPid"]
    /\ ~inFlight["ProtectPid"][k].released
    \* an object released more often than referenced may be gone
    /\ \A p \in Pids : ObjRefs[p] >= 0
    /\ ObjRefs' = IF AgentProcess # NULL
                  THEN [ObjRefs EXCEPT ![AgentProcess] = @ - 1]
                  ELSE ObjRefs
    /\ inFlight' = [inFlight EXCEPT !["ProtectPid"][k].released = TRUE]
    /\ last' = [op |-> "ObDereferenceObject", caller |-> inFlight["ProtectPid"][k].caller,
                object |-> AgentProcess]
    /\ UNCHANGED << gateVars, regVars, policyVars, bannedVars, now, histVars,
                    ProtectedPid, ProtectedUiPid, AgentProcess, heartbeatVars,
                    modeVars, BannedAppsLock, moreHistVars >>

\* g_Tad.AgentProcess = proc;
ProtectPidStore(k) ==
    /\ k \in DOMAIN inFlight["ProtectPid"]
    /\ inFlight["ProtectPid"][k].released
    /\ ~inFlight["ProtectPid"][k].stored
    /\ AgentProcess' = inFlight["ProtectPid"][k].proc
    /\ inFlight' = [inFlight EXCEPT !["ProtectPid"][k].stored = TRUE]
    /\ last' = [op |-> "g_Tad.AgentProcess = proc",
                caller |-> inFlight["ProtectPid"][k].caller,
                object |-> inFlight["ProtectPid"][k].proc]
    /\ UNCHANGED << gateVars, regVars, policyVars, bannedVars, now, histVars,
                    ProtectedPid, ProtectedUiPid, ObjRefs, heartbeatVars, modeVars,
                    BannedAppsLock, moreHistVars >>

\* InterlockedExchangePointer(&g_Tad.ProtectedPid, TargetPid); completion
ProtectPidExchange(k) ==
    /\ k \in DOMAIN inFlight["ProtectPid"]
    /\ inFlight["ProtectPid"][k].stored
    /\ LET r == inFlight["ProtectPid"][k]
           rest == [i \in 1..(Len(inFlight["ProtectPid"]) - 1) |->
                       IF i < k THEN inFlight["ProtectPid"][i]
                                ELSE inFlight["ProtectPid"][i + 1]]
       IN  /\ ProtectedPid' = r.irp.SystemBuffer[1].TargetPid
           /\ inFlight' = [inFlight EXCEPT !["ProtectPid"] = rest]
           /\ Complete("IOCTL_TAD_PROTECT_PID", r.caller, r.irp, "STATUS_SUCCESS", 0)
    /\ UNCHANGED << gateVars, regVars, policyVars, bannedVars, now, histVars,
                    AgentProcess, ProtectedUiPid, ObjRefs, heartbeatVars, modeVars,
                    BannedAppsLock, moreHistVars >>

ProtectPidBegin(callers, irps) ==
    \E caller \in callers, irp \in irps : ProtectPidLookup(caller, irp)

\* ProtectPid requests of several threads, the secret and the unload, which
\* runs when no request is in progress
NextRefs ==
    \/ ProtectPidBegin(AgentAndOther, ProtectPidIrpsValid)
    \/ \E k \in 1..MaxInFlight : ProtectPidRelease(k)
    \/ \E k \in 1..MaxInFlight : ProtectPidStore(k)
    \/ \E k \in 1..MaxInFlight : ProtectPidExchange(k)
    \/ Unlock(AgentAndOther, OneUnlockIrp)
    \/ (inFlight["ProtectPid"] = << >> /\ DriverUnload)

SpecRefs == Init /\ [][NextRefs]_vars

\* C25: the driver holds at most one process reference of its own: no
\* reference is released more often than it was taken, and whenever no
\* ProtectPid request is in progress the driver holds exactly the
\* reference of AgentProcess and no other (none after a permitted unload),
\* under every sequence and interleaving of ProtectPid requests.
C25_OneOwnedReference ==
    /\ \A p \in Pids : ObjRefs[p] >= 0
    /\ inFlight["ProtectPid"] = << >>
          => \A p \in Pids : ObjRefs[p] = IF AgentProcess = p THEN 1 ELSE 0


(***************************************************************************)
(* 9. TadVerifyAuthKey loop by loop, with the byte operations counted      *)
(***************************************************************************)
\* for (i = 0; i < TAD_AUTH_KEY_SIZE; i++) decoded[i] = TadObfuscatedKey[i] ^ mask
RECURSIVE DecodeLoop(_, _)
DecodeLoop(i, ops) ==
    IF i > TAD_AUTH_KEY_SIZE THEN ops
    ELSE DecodeLoop(i + 1, ops + 1)

\* mutant: the comparison stops at the first byte that differs
RECURSIVE AccumulateLoop_EarlyExit(_, _, _, _)
AccumulateLoop_EarlyExit(ProvidedKey, i, diff, ops) ==
    IF i > TAD_AUTH_KEY_SIZE \/ diff # 0 THEN [diff |-> diff, ops |-> ops]
    ELSE AccumulateLoop_EarlyExit(ProvidedKey, i + 1,
                                  BitOr(diff, BitXor(DecodedKey[i], ProvidedKey[i])),
                                  ops + 1)

\* for (i = 0; i < TAD_AUTH_KEY_SIZE; i++) diff |= (decoded[i] ^ ProvidedKey[i])
RECURSIVE AccumulateLoop(_, _, _, _)
AccumulateLoop(ProvidedKey, i, diff, ops) ==
    IF i > TAD_AUTH_KEY_SIZE THEN [diff |-> diff, ops |-> ops]
    ELSE AccumulateLoop(ProvidedKey, i + 1,
                        BitOr(diff, BitXor(DecodedKey[i], ProvidedKey[i])),
                        ops + 1)

\* one call of TadVerifyAuthKey
KeyComparison(ProvidedKey) ==
    LET acc == AccumulateLoop(ProvidedKey, 1, 0, 0)
    IN  /\ last' = [op |-> "TadVerifyAuthKey", ProvidedKey |-> ProvidedKey,
                    result |-> acc.diff = 0,
                    decodes |-> DecodeLoop(1, 0), accumulates |-> acc.ops]
        /\ UNCHANGED << gateVars, regVars, pidVars, policyVars, bannedVars, now,
                        histVars, quietVars >>

\* the secret, and keys that agree with it up to a position and differ from
\* it in that byte alone or in every byte from there on
ProbeKeys ==
    { PreSharedSecret }
    \cup { [PreSharedSecret EXCEPT ![k] = (@ + d) % 256] :
              k \in 1..TAD_AUTH_KEY_SIZE, d \in { 1, 2 } }
    \cup { [i \in 1..TAD_AUTH_KEY_SIZE |->
               IF i < k THEN PreSharedSecret[i] ELSE (PreSharedSecret[i] + d) % 256] :
              k \in 1..TAD_AUTH_KEY_SIZE, d \in { 1, 2 } }

NextKey == \E key \in ProbeKeys : KeyComparison(key)

SpecKey == Init /\ [][NextKey]_vars

\* C26: every call of TadVerifyAuthKey performs 32 de-obfuscations and 32
\* XOR-accumulate steps, whether the presented key is the secret or differs
\* from it, and wherever it first differs; the result is TRUE for the
\* secret alone.
C26_SameWorkForEveryKey ==
    last.op = "TadVerifyAuthKey"
       => /\ last.decodes = TAD_AUTH_KEY_SIZE
          /\ last.accumulates = TAD_AUTH_KEY_SIZE
          /\ last.result <=> (last.ProvidedKey = PreSharedSecret)
          /\ last.result <=> TadVerifyAuthKey(last.ProvidedKey)

\* a key whose first byte already differs has been compared to the end
C26_Witness ==
    /\ last.op = "TadVerifyAuthKey"
    /\ last.ProvidedKey[1] # PreSharedSecret[1]
    /\ ~last.result
    /\ last.accumulates = TAD_AUTH_KEY_SIZE


(***************************************************************************)
(* 10. The callbacks that may not block (handle interception, the DPC)     *)
(* against a SetBannedApps request that holds BannedAppsLock               *)
(***************************************************************************)
NextNonBlocking ==
    \/ ProtectPid({ 1 }, OneProtectPidIrp)
    \/ SetPolicy({ 1 }, OnePolicyIrp)
    \/ ProtectUi({ 1 }, OneProtectUiIrp)
    \/ SetBannedAppsBegin({ 1 }, OneBannedAppsIrp)
    \/ SetBannedAppsClear
    \/ SetBannedAppsCopy
    \/ SetBannedAppsRelease
    \/ NotifyBegin({ 2 }, OneCreateInfo)
    \/ NotifyScan
    \/ ObProcessPre({ 3 }, OneObProcessOp)
    \/ ObThreadPre({ 3 }, OneObThreadOp)
    \/ Heartbeat({ 1 }, OneHeartbeatIrp)
    \/ HeartbeatComplete
    \/ TadHeartbeatDpcRoutine

SpecNonBlocking == Init /\ [][NextNonBlocking]_vars

NonBlockingDone ==
    last.op \in { "TadObProcessPreCallback", "TadObThreadPreCallback",
                  "TadHeartbeatDpcRoutine" }

\* C27: the handle-interception callbacks and the watchdog DPC run to
\* completion in one step in every state, whoever owns BannedAppsLock and
\* however far a SetBannedApps request has got with the list; they leave
\* the lock, the list and the requests in progress as they are, and what
\* they decide follows from the protected identities (the access mask) and
\* from HeartbeatAlive (the loss), not from the list.
C27_NonBlockingNeverTouchList ==
    /\ [](ObCallbackHandle => /\ ENABLED ObProcessPre({ 3 }, OneObProcessOp)
                              /\ ENABLED ObThreadPre({ 3 }, OneObThreadOp))
    /\ [](TimerActive => ENABLED TadHeartbeatDpcRoutine)
    /\ [][NonBlockingDone'
             => /\ UNCHANGED << BannedAppsLock, inFlight, bannedVars, committedApps >>
                /\ ObCallbackDone'
                     => last'.DesiredAccess =
                           IF InSetSlot(ObTarget') /\ ~InSetSlot(last'.cPid)
                           THEN BitAndNot(last'.OpInfo.DesiredAccess,
                                          IF last'.op = "TadObProcessPreCallback"
                                          THEN TAD_STRIPPED_PROCESS_RIGHTS
                                          ELSE TAD_STRIPPED_THREAD_RIGHTS)
                           ELSE last'.OpInfo.DesiredAccess
                /\ DpcDone' => (last'.lost <=> HeartbeatAlive = 0)]_vars

\* a third-party open of the protected process has been stripped while a
\* SetBannedApps request held the lock with the list half written
C27_Witness ==
    /\ last.op = "TadObProcessPreCallback"
    /\ BannedAppsLock = "SetBannedApps"
    /\ inFlight["SetBannedApps"] # << >>
    /\ inFlight["SetBannedApps"][1].i >= 0
    /\ last.DesiredAccess # last.OpInfo.DesiredAccess


(***************************************************************************)
(* The overlay slot                                                        *)
(***************************************************************************)
ProtectUiAccepted(req) ==
    req.op = "IOCTL_TAD_PROTECT_UI" /\ req.status = "STATUS_SUCCESS"

\* the mask without the rights the callback of the object type strips
StrippedMask(req) ==
    BitAndNot(req.OpInfo.DesiredAccess,
              IF req.op = "TadObProcessPreCallback" THEN TAD_STRIPPED_PROCESS_RIGHTS
                                                   ELSE TAD_STRIPPED_THREAD_RIGHTS)

\* C28: an accepted ProtectUi request with Protect non-zero stores its
\* TargetPid in ProtectedUiPid and one with Protect 0 clears the slot;
\* nothing else changes the slot (ProtectPid in particular), and ProtectUi
\* leaves ProtectedPid and the owned reference alone.  While a process is
\* in the overlay slot, a handle create or duplicate for it or for one of
\* its threads by a process in neither slot loses the stripped rights, as
\* for ProtectedPid; a process in no set slot is opened with the mask
\* asked for, so after an accepted ProtectUi with Protect 0 the former
\* overlay process is, unless it is ProtectedPid too.
C28_UiSlotProtectsLikeService ==
    [][/\ ProtectUiAccepted(last')
            => /\ ProtectedUiPid' = IF last'.irp.SystemBuffer[1].Protect # 0
                                    THEN last'.irp.SystemBuffer[1].TargetPid
                                    ELSE NULL
               /\ UNCHANGED << ProtectedPid, AgentProcess, ObjRefs >>
       /\ ProtectedUiPid' # ProtectedUiPid => ProtectUiAccepted(last')
       /\ last'.op = "IOCTL_TAD_PROTECT_PID" => UNCHANGED ProtectedUiPid
       /\ (ObCallbackDone' /\ ProtectedUiPid # NULL /\ ObTarget' = ProtectedUiPid
               /\ last'.cPid \notin { ProtectedPid, ProtectedUiPid })
            => last'.DesiredAccess = StrippedMask(last')
       /\ (ObCallbackDone' /\ ObTarget' # ProtectedPid
               /\ (ProtectedUiPid = NULL \/ ObTarget' # ProtectedUiPid))
            => last'.DesiredAccess = last'.OpInfo.DesiredAccess]_vars

\* a third process has opened the overlay process, which is not the
\* service process, with all access and got the mask without the rights
\* to terminate, create threads, write memory and suspend
C28_Witness ==
    /\ last.op = "TadObProcessPreCallback"
    /\ last.OpInfo.Operation = "OB_OPERATION_HANDLE_CREATE"
    /\ ProtectedPid # NULL
    /\ ProtectedUiPid # NULL
    /\ ProtectedUiPid # ProtectedPid
    /\ last.OpInfo.Object.Pid = ProtectedUiPid
    /\ last.cPid \notin { ProtectedPid, ProtectedUiPid }
    /\ last.OpInfo.DesiredAccess = 2097151
    /\ last.DesiredAccess = StrippedMask(last)
    /\ last.DesiredAccess # last.OpInfo.DesiredAccess


NullUnchecked ==
    { "IOCTL_TAD_HEARTBEAT", "IOCTL_TAD_READ_ALERT", "IOCTL_TAD_HARD_LOCK",
      "IOCTL_TAD_PROTECT_UI", "IOCTL_TAD_STEALTH", "IOCTL_TAD_SET_BANNED_APPS" }

\* the handlers among them that test the caller before they use the buffer
CallerTested == NullUnchecked \ OutputOpcodes

Running == inFlight["KeBugCheckEx"] = << >>

\* the handler of one of the six opcodes, given a request without a buffer
IoctlNullBuffer(ioctl, caller, irp) ==
    LET req == [op |-> ioctl, caller |-> caller, irp |-> irp]
        beat == ioctl = "IOCTL_TAD_HEARTBEAT"
    IN  /\ DeviceObject
        /\ ioctl \in NullUnchecked
        /\ irp.SystemBuffer = NULLBUF
        /\ UNCHANGED << gateVars, regVars, pidVars, policyVars, bannedVars, now, histVars,
                        modeVars, BannedAppsLock, acceptedPolicy, committedApps,
                        completedSinceTick >>
        /\ IF PayloadLength(req) < PayloadSize[ioctl]
           THEN /\ Complete(ioctl, caller, irp, "STATUS_BUFFER_TOO_SMALL", 0)
                /\ UNCHANGED << heartbeatVars, inFlight, marksSinceTick >>
           ELSE IF ioctl \in CallerTested /\ ~TadIsCallerProtectedAgent(caller)
           THEN /\ Complete(ioctl, caller, irp, "STATUS_ACCESS_DENIED", 0)
                /\ UNCHANGED << heartbeatVars, inFlight, marksSinceTick >>
           ELSE \* Heartbeat has set the flag and taken the time by now
                /\ HeartbeatAlive' = IF beat THEN 1 ELSE HeartbeatAlive
                /\ LastHeartbeatTime' = IF beat THEN now ELSE LastHeartbeatTime
                /\ marksSinceTick' = IF beat THEN TRUE ELSE marksSinceTick
                /\ \E outcome \in { "bugcheck", "page 0 mapped" } :
                      /\ last' = [op |-> ioctl, caller |-> caller, irp |-> irp,
                                  status |-> "none", Information |-> 0,
                                  dereferenced |-> outcome]
                      /\ inFlight' = [inFlight EXCEPT !["KeBugCheckEx"] = << req >>]

\* no buffer, with the length of the payload and with none
NullIrps(ioctl) ==
    { IF ioctl \in OutputOpcodes THEN Irp(0, n, NULLBUF) ELSE Irp(n, 0, NULLBUF) :
          n \in { 0, PayloadSize[ioctl] } }

NullBuffer(ioctls, callers) ==
    \E ioctl \in ioctls, caller \in callers :
        \E irp \in NullIrps(ioctl) : IoctlNullBuffer(ioctl, caller, irp)

\* the requests of a set and the same without a buffer
AndNull(irps) == irps \cup { [irp EXCEPT !.SystemBuffer = NULLBUF] : irp \in irps }

NextNull ==
    \/ Running /\ ProtectPid(AgentAndOther, AndNull(OneProtectPidIrp))
    \/ Running /\ Unlock(AgentAndOther, AndNull(OneUnlockIrp))
    \/ Running /\ SetUserRole(AgentAndOther, AndNull(OneSetUserRoleIrp))
    \/ Running /\ SetPolicy(AgentAndOther, AndNull(OnePolicyIrp))
    \/ Running /\ HardLock({ 1 }, OneHardLockIrp)
    \/ Running /\ Heartbeat({ 1 }, OneHeartbeatIrp)
    \/ Running /\ HeartbeatComplete
    \/ Running /\ TadHeartbeatDpcRoutine
    \/ Running /\ NullBuffer(NullUnchecked, AgentAndOther)

SpecNull == Init /\ [][NextNull]_vars

Rejected(req) ==
    /\ req.status \in { "STATUS_BUFFER_TOO_SMALL", "STATUS_INVALID_PARAMETER",
                        "STATUS_ACCESS_DENIED" }
    /\ req.Information = 0

\* C30: for every opcode, a request whose SystemBuffer is NULL is rejected:
\* it completes with an error status, no field of the payload is read (no
\* access is made through the pointer), nothing is returned and no
\* enforcement state changes.
C30_NullBufferRejected ==
    [][(last'.op \in DOMAIN PayloadSize /\ last'.irp.SystemBuffer = NULLBUF)
          => /\ Rejected(last')
             /\ "dereferenced" \notin DOMAIN last'
             /\ UNCHANGED enforcementVars]_vars


(***************************************************************************)
(* The order of the statements of TadDispatchDeviceControl.  For each      *)
(* opcode the statements from the entry of the dispatch routine up to the  *)
(* first access through the system buffer, in the order of the source:     *)
(*   "lfence"   _mm_lfence()                                               *)
(*   "length"   the branch on inLen or outLen                              *)
(*   "null"     if (!buf)                                                  *)
(*   "caller"   if (g_Tad.AgentProcess && !TadIsCallerProtectedAgent())    *)
(*   "agent"    if (!TadIsCallerProtectedAgent())                          *)
(*   "lockout"  the test of the counter and of LockoutUntil                *)
(*   "state"    a statement on g_Tad that is no branch                     *)
(*   "payload"  the first read or write through buf                        *)
(* A request walks its statements one by one; a branch that is taken, or   *)
(* the payload statement, ends the walk and the handler completes the      *)
(* request.  The record of the walk stays until the next request enters.   *)
(***************************************************************************)
St(line, does) == [line |-> line, does |-> does]

Statements ==
    [IOCTL_TAD_PROTECT_PID |->
         << St(451, "lfence"), St(462, "length"), St(464, "lfence"), St(466, "null"),
            St(468, "payload") >>,
     IOCTL_TAD_UNLOCK |->
         << St(451, "lfence"), St(490, "length"), St(492, "lfence"), St(494, "null"),
            St(496, "caller"), St(501, "lockout"), St(509, "payload") >>,
     IOCTL_TAD_HEARTBEAT |->
         << St(451, "lfence"), St(531, "length"), St(533, "lfence"), St(537, "state"),
            St(538, "state"), St(541, "payload") >>,
     IOCTL_TAD_SET_USER_ROLE |->
         << St(451, "lfence"), St(562, "length"), St(564, "lfence"), St(566, "null"),
            St(568, "caller"), St(573, "payload") >>,
     IOCTL_TAD_SET_POLICY |->
         << St(451, "lfence"), St(585, "length"), St(587, "lfence"), St(589, "null"),
            St(591, "caller"), St(596, "payload") >>,
     IOCTL_TAD_READ_ALERT |->
         << St(451, "lfence"), St(610, "length"), St(612, "lfence"), St(621, "payload") >>,
     IOCTL_TAD_HARD_LOCK |->
         << St(451, "lfence"), St(633, "length"), St(634, "agent"), St(637, "lfence"),
            St(652, "payload") >>,
     IOCTL_TAD_PROTECT_UI |->
         << St(451, "lfence"), St(666, "length"), St(667, "agent"), St(670, "lfence"),
            St(685, "payload") >>,
     IOCTL_TAD_STEALTH |->
         << St(451, "lfence"), St(704, "length"), St(705, "agent"), St(708, "lfence"),
            St(742, "payload") >>,
     IOCTL_TAD_SET_BANNED_APPS |->
         << St(451, "lfence"), St(766, "length"), St(767, "agent"), St(770, "lfence"),
            St(774, "payload") >>]

\* mutant: the barriers inside the cases are compiled out (the build in
\* which neither _AMD64_ nor _X86_ is defined, but for the one at the entry)
StatementAt_NoCaseFence(ioctl, pc) ==
    LET st == Statements[ioctl][pc]
    IN  IF st.does = "lfence" /\ pc > 1 THEN St(st.line, "state") ELSE st

\* the statement a request of the opcode executes at a position
StatementAt(ioctl, pc) == Statements[ioctl][pc]

\* the statement is a branch and the request takes it: status set, break
Leaves(st, req) ==
    CASE st.does = "length" -> PayloadLength(req) < PayloadSize[req.op]
      [] st.does = "null" -> req.irp.SystemBuffer = NULLBUF
      [] st.does = "caller" -> CallerRejected(req.caller)
      [] st.does = "agent" -> ~TadIsCallerProtectedAgent(req.caller)
      [] st.does = "lockout" ->
             LockoutActive(FailedUnlockAttempts, now, LockoutUntil)
      [] OTHER -> FALSE

Dispatching == last.op = "TadDispatchDeviceControl"

\* the entry of the dispatch routine: the opcode, lengths and buffer are
\* read from the stack location
DispatchEnter(callers, requests) ==
    \E caller \in callers, rq \in requests :
        /\ DeviceObject
        /\ ~Dispatching
        /\ inFlight["Heartbeat"] = << >>
        /\ inFlight' = [inFlight EXCEPT
               !["Dispatch"] = << [op |-> rq.op, caller |-> caller, irp |-> rq.irp,
                                   pc |-> 1, executed |-> << >>] >>]
        /\ last' = [op |-> "TadDispatchDeviceControl", line |-> 445]
        /\ UNCHANGED << gateVars, regVars, pidVars, policyVars, bannedVars, now, histVars,
                        heartbeatVars, modeVars, BannedAppsLock, moreHistVars >>

\* one statement of the walk
DispatchStatement ==
    /\ Dispatching
    /\ inFlight["Dispatch"][1].pc > 0
    /\ LET r == inFlight["Dispatch"][1]
           st == StatementAt(r.op, r.pc)
           ends == Leaves(st, r) \/ st.does = "payload"
       IN  /\ inFlight' = [inFlight EXCEPT
                  !["Dispatch"] = << [r EXCEPT !.executed = Append(@, st),
                                               !.pc = IF ends THEN 0 ELSE @ + 1] >>]
           /\ last' = [op |-> "TadDispatchDeviceControl", line |-> st.line]
    /\ UNCHANGED << gateVars, regVars, pidVars, policyVars, bannedVars, now, histVars,
                    heartbeatVars, modeVars, BannedAppsLock, moreHistVars >>

\* the handler of an opcode, from its case label to IoCompleteRequest
Handler(ioctl, callers, irps) ==
    \/ ioctl = "IOCTL_TAD_PROTECT_PID" /\ ProtectPid(callers, irps)
    \/ ioctl = "IOCTL_TAD_UNLOCK" /\ Unlock(callers, irps)
    \/ ioctl = "IOCTL_TAD_HEARTBEAT" /\ Heartbeat(callers, irps)
    \/ ioctl = "IOCTL_TAD_SET_USER_ROLE" /\ SetUserRole(callers, irps)
    \/ ioctl = "IOCTL_TAD_SET_POLICY" /\ SetPolicy(callers, irps)
    \/ ioctl = "IOCTL_TAD_READ_ALERT" /\ ReadAlert(callers, irps)
    \/ ioctl = "IOCTL_TAD_HARD_LOCK" /\ HardLock(callers, irps)
    \/ ioctl = "IOCTL_TAD_PROTECT_UI" /\ ProtectUi(callers, irps)
    \/ ioctl = "IOCTL_TAD_STEALTH" /\ Stealth(callers, irps)
    \/ ioctl = "IOCTL_TAD_SET_BANNED_APPS" /\ SetBannedApps(callers, irps)

\* the walk has ended: the handler decides and completes the request
DispatchBody ==
    /\ Dispatching
    /\ inFlight["Dispatch"][1].pc = 0
    /\ LET r == inFlight["Dispatch"][1]
       IN  Handler(r.op, { r.caller }, { r.irp })

\* each opcode with its payload, with a buffer one byte short and with no
\* buffer; the four opcodes that test the pointer also with a NULL buffer
\* of the full length.  HardLock, ProtectUi and Stealth switch off.
Requests(ioctl, irps) == { [op |-> ioctl, irp |-> irp] : irp \in irps }

DispatchRequests ==
    Requests("IOCTL_TAD_PROTECT_PID", AndNull(AndShortInput(OneProtectPidIrp)))
      \cup Requests("IOCTL_TAD_UNLOCK", AndNull(AndShortInput(OneUnlockIrp)))
      \cup Requests("IOCTL_TAD_HEARTBEAT", AndShortOutput(OneHeartbeatIrp))
      \cup Requests("IOCTL_TAD_SET_USER_ROLE", AndNull(AndShortInput(OneSetUserRoleIrp)))
      \cup Requests("IOCTL_TAD_SET_POLICY", AndNull(AndShortInput(OnePolicyIrp)))
      \cup Requests("IOCTL_TAD_READ_ALERT", AndShortOutput(OneReadAlertIrp))
      \cup Requests("IOCTL_TAD_HARD_LOCK", AndShortInput(HardLockIrps \ OneHardLockIrp))
      \cup Requests("IOCTL_TAD_PROTECT_UI",
                     AndShortInput({ [irp EXCEPT !.SystemBuffer[1].Protect = 0] :
                                         irp \in OneProtectUiIrp }))
      \cup Requests("IOCTL_TAD_STEALTH", AndShortInput(StealthIrps \ OneStealthIrp))
      \cup Requests("IOCTL_TAD_SET_BANNED_APPS", AndShortInput(OneBannedAppsIrp))

NextBarrier ==
    \/ DispatchEnter(AgentAndOther, DispatchRequests)
    \/ DispatchStatement
    \/ DispatchBody
    \/ HeartbeatComplete

SpecBarrier == Init /\ [][NextBarrier]_vars

\* the statements the request in the dispatch routine has executed
Executed ==
    IF inFlight["Dispatch"] = << >> THEN << >> ELSE inFlight["Dispatch"][1].executed

Fenced(trace, k) ==
    \E j \in 1..(k - 1) :
        /\ trace[j].does = "lfence"
        /\ \E i \in 1..(j - 1) : trace[i].does = "length"
        /\ \A i \in (j + 1)..(k - 1) : trace[i].does # "length"

NextSnapshot ==
    \/ ProtectPid({ 1 }, ProtectPidIrpsValid)
    \/ Unlock({ 1 }, TwoUnlockIrps)
    \/ SetUserRole({ 1 }, OneSetUserRoleIrp)
    \/ SetPolicy({ 1 }, OnePolicyIrp)
    \/ Heartbeat(AgentAndOther, HeartbeatIrps)
    \/ HeartbeatComplete
    \/ TadHeartbeatDpcRoutine

SpecSnapshot == Init /\ [][NextSnapshot]_vars

HeartbeatSucceeds == last'.op = "IOCTL_TAD_HEARTBEAT" /\ last'.status = "STATUS_SUCCESS"

TadRoleStudent == 0
TadRoleTeacher == 1
TadRoleAdmin == 2

TAD_USER_ROLE == { TadRoleStudent, TadRoleTeacher, TadRoleAdmin, TadRoleUnknown }

\* TAD_SET_USER_ROLE_INPUT.Role is a ULONG: the four roles, the first value
\* past Admin and the first past Unknown
UserRoleIrps ==
    { Irp(SizeofSetUserRoleInput, 0, << [Role |-> r, SessionId |-> 1, UserSid |-> << >>] >>) :
          r \in TAD_USER_ROLE \cup { TadRoleAdmin + 1, TadRoleUnknown + 1 } }

NextRole ==
    \/ ProtectPid({ 1 }, OneProtectPidIrp)
    \/ SetUserRole(AgentAndOther, UserRoleIrps)
    \/ Heartbeat({ 1 }, OneHeartbeatIrp)
    \/ HeartbeatComplete

SpecRole == Init /\ [][NextRole]_vars

\* C33: in every reachable state CurrentUserRole is TadRoleStudent,
\* TadRoleTeacher, TadRoleAdmin or TadRoleUnknown, whatever Role the
\* accepted SetUserRole requests carried.
C33_RoleIsEnumerated == CurrentUserRole \in TAD_USER_ROLE


(***************************************************************************)
(* IOCTL_TAD_UNLOCK on several threads.  The handler takes no lock: the    *)
(* test of the counter and of LockoutUntil (lines 499-506), the comparison *)
(* with the increment or the reset (508-514), the store of the current     *)
(* time in LockoutUntil (516) and the addition of the window (519) are     *)
(* steps of their own, and the steps of different requests interleave.     *)
(* inFlight["Unlock"] holds the requests past the lockout test with the    *)
(* statement each is at.  runLockEnd is the end of the window that the     *)
(* last increment to the limit or beyond opened, counted from that step.   *)
(***************************************************************************)
UnlockRest(k) ==
    [i \in 1..(Len(inFlight["Unlock"]) - 1) |->
        IF i < k THEN inFlight["Unlock"][i] ELSE inFlight["Unlock"][i + 1]]

\* lines 490-506: the tests of the request and of the lockout
UnlockCheck(caller, irp) ==
    IF ~(WellFormedUnlock(irp) /\ Permitted(caller))
    THEN IoctlUnlock(caller, irp) /\ UNCHANGED << histVars, quietVars >>
    ELSE /\ DeviceObject
         /\ Len(inFlight["Unlock"]) < MaxInFlight
         /\ IF LockoutActive(FailedUnlockAttempts, now, LockoutUntil)
            THEN /\ Complete("IOCTL_TAD_UNLOCK", caller, irp, "STATUS_ACCESS_DENIED", 0)
                 /\ UNCHANGED << FailedUnlockAttempts, inFlight >>
            ELSE /\ FailedUnlockAttempts' = CountAfterWindow(FailedUnlockAttempts)
                 /\ inFlight' = [inFlight EXCEPT !["Unlock"] =
                        Append(@, [caller |-> caller, irp |-> irp, pc |-> "verify"])]
                 /\ last' = [op |-> "KeQuerySystemTime", caller |-> caller, irp |-> irp]
         /\ UNCHANGED << AllowUnload, LockoutUntil, regVars, pidVars, policyVars,
                         bannedVars, now, histVars, heartbeatVars, modeVars,
                         BannedAppsLock, moreHistVars >>

\* lines 508-514: TadVerifyAuthKey, then the two exchanges or the increment
UnlockVerify(k) ==
    /\ k \in DOMAIN inFlight["Unlock"]
    /\ inFlight["Unlock"][k].pc = "verify"
    /\ LET r == inFlight["Unlock"][k]
           a == FailedUnlockAttempts + 1
           done(status) == [op |-> "IOCTL_TAD_UNLOCK", caller |-> r.caller, irp |-> r.irp,
                            status |-> status, Information |-> 0, evaluated |-> TRUE]
       IN  IF TadVerifyAuthKey(r.irp.SystemBuffer[1].AuthKey)
           THEN /\ AllowUnload' = 1
                /\ FailedUnlockAttempts' = 0
                /\ inFlight' = [inFlight EXCEPT !["Unlock"] = UnlockRest(k)]
                /\ last' = done("STATUS_SUCCESS")
                /\ UNCHANGED runLockEnd
           ELSE /\ FailedUnlockAttempts' = a
                /\ AllowUnload' = AllowUnloadOnFailure(AllowUnload)
                /\ IF a >= TAD_MAX_UNLOCK_ATTEMPTS
                   THEN /\ inFlight' = [inFlight EXCEPT !["Unlock"][k].pc = "stamp"]
                        /\ last' = [op |-> "InterlockedIncrement", caller |-> r.caller,
                                    irp |-> r.irp, evaluated |-> TRUE]
                        /\ runLockEnd' = now + (-TAD_LOCKOUT_DURATION)
                   ELSE /\ inFlight' = [inFlight EXCEPT !["Unlock"] = UnlockRest(k)]
                        /\ last' = done("STATUS_ACCESS_DENIED")
                        /\ UNCHANGED runLockEnd
    /\ UNCHANGED << LockoutUntil, regVars, pidVars, policyVars, bannedVars, now,
                    wrongRun, acceptedNames, acceptedFlagOff, heartbeatVars, modeVars,
                    BannedAppsLock, moreHistVars >>

\* line 516: KeQuerySystemTime(&g_Tad.LockoutUntil)
UnlockStamp(k) ==
    /\ k \in DOMAIN inFlight["Unlock"]
    /\ inFlight["Unlock"][k].pc = "stamp"
    /\ LockoutUntil' = now
    /\ inFlight' = [inFlight EXCEPT !["Unlock"][k].pc = "extend"]
    /\ last' = [op |-> "KeQuerySystemTime", caller |-> inFlight["Unlock"][k].caller,
                irp |-> inFlight["Unlock"][k].irp]
    /\ UNCHANGED << AllowUnload, FailedUnlockAttempts, regVars, pidVars, policyVars,
                    bannedVars, now, histVars, heartbeatVars, modeVars, BannedAppsLock,
                    moreHistVars >>

\* line 519: g_Tad.LockoutUntil.QuadPart += (-TAD_LOCKOUT_DURATION), and
\* the completion of the request
UnlockExtend(k) ==
    /\ k \in DOMAIN inFlight["Unlock"]
    /\ inFlight["Unlock"][k].pc = "extend"
    /\ LockoutUntil' = NewLockoutUntil(LockoutUntil)
    /\ inFlight' = [inFlight EXCEPT !["Unlock"] = UnlockRest(k)]
    /\ Complete("IOCTL_TAD_UNLOCK", inFlight["Unlock"][k].caller,
                inFlight["Unlock"][k].irp, "STATUS_ACCESS_DENIED", 0)
    /\ UNCHANGED << AllowUnload, FailedUnlockAttempts, regVars, pidVars, policyVars,
                    bannedVars, now, histVars, heartbeatVars, modeVars, BannedAppsLock,
                    moreHistVars >>

UnlockBegin(callers, irps) ==
    \E caller \in callers, irp \in irps : UnlockCheck(caller, irp)

\* threads of one process send the secret and a wrong key while time passes
NextUnlockRace ==
    \/ UnlockBegin({ 1 }, TwoUnlockIrps)
    \/ \E k \in 1..MaxInFlight : UnlockVerify(k)
    \/ \E k \in 1..MaxInFlight : UnlockStamp(k)
    \/ \E k \in 1..MaxInFlight : UnlockExtend(k)
    \/ Tick

SpecUnlockRace == Init /\ [][NextUnlockRace]_vars

\* C34: in every reachable state FailedUnlockAttempts is between 0 and
\* TAD_MAX_UNLOCK_ATTEMPTS, also while several Unlock requests are in
\* progress.
C34_CounterWithinLimit ==
    FailedUnlockAttempts \in 0..TAD_MAX_UNLOCK_ATTEMPTS


\* C35: from the step in which a wrong secret raises FailedUnlockAttempts to
\* the limit until the lockout window counted from that step has elapsed,
\* no Unlock request has its secret evaluated, lowers the counter or
\* changes AllowUnload, whatever the interleaving of the requests: a
\* request that arrives before LockoutUntil is complete is refused too.
C35_NoEvaluationDuringWindow ==
    [][(runLockEnd # 0 /\ now < runLockEnd)
          => /\ "evaluated" \notin DOMAIN last'
             /\ FailedUnlockAttempts' >= FailedUnlockAttempts
             /\ AllowUnload' = AllowUnload]_vars


\* C36: whenever no ProtectPid request is in progress, the process that the
\* caller test compares with (AgentProcess) and the pid that the handle
\* callbacks protect and Heartbeat reports (ProtectedPid) name the same
\* process, or are both unset, also after ProtectPid requests for different
\* targets have run at the same time.
C36_AgentIsProtectedPid ==
    inFlight["ProtectPid"] = << >> => AgentProcess = ProtectedPid


(***************************************************************************)
(* g_Tad.BannedAppsLock with both of its users in their statements.  A     *)
(* SetBannedApps request that has passed its checks waits at               *)
(* ExAcquireFastMutex (i = -2) until the mutex is free, then clears,       *)
(* copies and releases; the launch check waits there as well, then         *)
(* compares the entries below BannedAppCount one by one, leaves the loop   *)
(* at the first match and releases.                                        *)
(***************************************************************************)
\* lines 761-775: the checks of the request
SetBannedAppsArrive(caller, irp) ==
    /\ inFlight["SetBannedApps"] = << >>
    /\ IF SetBannedAppsAccepts(caller, irp)
       THEN /\ DeviceObject
            /\ inFlight' = [inFlight EXCEPT !["SetBannedApps"] =
                               << [caller |-> caller, irp |-> irp, i |-> -2] >>]
            /\ last' = [op |-> "IOCTL_TAD_SET_BANNED_APPS", caller |-> caller,
                        irp |-> irp, status |-> "STATUS_PENDING", Information |-> 0]
            /\ UNCHANGED << gateVars, regVars, pidVars, policyVars, bannedVars, now,
                            histVars, committedApps >>
       ELSE /\ IoctlSetBannedApps(caller, irp)
            /\ BannedAppsHistory(irp)
            /\ UNCHANGED << inFlight, committedApps >>
    /\ UNCHANGED << heartbeatVars, modeVars, BannedAppsLock, acceptedPolicy,
                    marksSinceTick, completedSinceTick >>

\* line 776: ExAcquireFastMutex returns
SetBannedAppsLock ==
    /\ inFlight["SetBannedApps"] # << >>
    /\ inFlight["SetBannedApps"][1].i = -2
    /\ MutexAvailable(BannedAppsLock)
    /\ BannedAppsLock' = "SetBannedApps"
    /\ inFlight' = [inFlight EXCEPT !["SetBannedApps"][1].i = -1]
    /\ last' = [op |-> "ExAcquireFastMutex", caller |-> inFlight["SetBannedApps"][1].caller,
                irp |-> inFlight["SetBannedApps"][1].irp]
    /\ UNCHANGED << gateVars, regVars, pidVars, policyVars, bannedVars, now, histVars,
                    heartbeatVars, modeVars, moreHistVars >>

SetBannedAppsArrives(callers, irps) ==
    \E caller \in callers, irp \in irps : SetBannedAppsArrive(caller, irp)

\* line 1104: ExAcquireFastMutex returns in the callback
NotifyAcquire ==
    /\ inFlight["ProcessNotify"] # << >>
    /\ "i" \notin DOMAIN inFlight["ProcessNotify"][1]
    /\ MutexAvailable(BannedAppsLock)
    /\ BannedAppsLock' = "ProcessNotify"
    /\ LET r == inFlight["ProcessNotify"][1]
       IN  inFlight' = [inFlight EXCEPT !["ProcessNotify"] =
               << [ProcessId |-> r.ProcessId, CreateInfo |-> r.CreateInfo,
                   LockAtEntry |-> r.LockAtEntry, i |-> 0, matched |-> FALSE] >>]
    /\ last' = [op |-> "ExAcquireFastMutex", caller |-> "TadProcessNotifyCallback"]
    /\ UNCHANGED << gateVars, regVars, pidVars, policyVars, bannedVars, now, histVars,
                    heartbeatVars, modeVars, moreHistVars >>

\* lines 1106-1124: one iteration of the loop; CreationStatus and break on
\* a match
NotifyCompare ==
    /\ inFlight["ProcessNotify"] # << >>
    /\ "i" \in DOMAIN inFlight["ProcessNotify"][1]
    /\ LET r == inFlight["ProcessNotify"][1]
           component == Component(r.CreateInfo[1].ImageFileName[1])
       IN  /\ ~r.matched
           /\ r.i < BannedAppCount
           /\ IF RtlEqualUnicodeString(component, BannedString(r.i), TRUE)
              THEN inFlight' = [inFlight EXCEPT !["ProcessNotify"][1].matched = TRUE]
              ELSE inFlight' = [inFlight EXCEPT !["ProcessNotify"][1].i = r.i + 1]
           /\ last' = [op |-> "RtlEqualUnicodeString", i |-> r.i]
    /\ UNCHANGED << gateVars, regVars, pidVars, policyVars, bannedVars, now, histVars,
                    heartbeatVars, modeVars, BannedAppsLock, moreHistVars >>

\* line 1126: ExReleaseFastMutex and the return of the callback
NotifyRelease ==
    /\ inFlight["ProcessNotify"] # << >>
    /\ "i" \in DOMAIN inFlight["ProcessNotify"][1]
    /\ LET r == inFlight["ProcessNotify"][1]
       IN  /\ r.matched \/ r.i >= BannedAppCount
           /\ last' = [op |-> "TadProcessNotifyCallback", ProcessId |-> r.ProcessId,
                       CreateInfo |-> r.CreateInfo,
                       CreationStatus |-> IF r.matched THEN "STATUS_ACCESS_DENIED"
                                                       ELSE "STATUS_SUCCESS",
                       LockAtEntry |-> r.LockAtEntry]
    /\ BannedAppsLock' = "free"
    /\ inFlight' = [inFlight EXCEPT !["ProcessNotify"] = << >>]
    /\ UNCHANGED << gateVars, regVars, pidVars, policyVars, bannedVars, now, histVars,
                    heartbeatVars, modeVars, moreHistVars >>

\* {"a.exe", "b.exe"}, and an empty entry before "a.exe"
LockIrps ==
    { Irp(SizeofBannedAppsInput, 0, << p >>) :
          p \in { BannedAppsInput(2, << Field(NameA), Field(NameB) >>),
                  BannedAppsInput(2, << Field(<< >>), Field(NameA) >>) } }

\* launches of \D\a.exe, \D\B.exe and \D\c.exe
LockLaunches ==
    { << [ImageFileName |-> << UStr(path) >>] >> :
          path \in { << 92, 68, 92, 97, 46, 101, 120, 101 >>,
                     << 92, 68, 92, 66, 46, 101, 120, 101 >>,
                     << 92, 68, 92, 99, 46, 101, 120, 101 >> } }

NextLock ==
    \/ ProtectPid({ 1 }, OneProtectPidIrp)
    \/ SetPolicy({ 1 }, OnePolicyIrp)
    \/ SetBannedAppsArrives(AgentAndOther, LockIrps)
    \/ SetBannedAppsLock
    \/ SetBannedAppsClear
    \/ SetBannedAppsCopy
    \/ SetBannedAppsRelease
    \/ NotifyBegin({ 2 }, LockLaunches)
    \/ NotifyAcquire
    \/ NotifyCompare
    \/ NotifyRelease

\* a thread that runs keeps running (the steps after the acquisition are
\* straight-line code and bounded loops), and a thread that waits for the
\* mutex gets it if it is released again and again (ExReleaseFastMutex
\* wakes a waiter)
SpecLockFair ==
    /\ Init
    /\ [][NextLock]_vars
    /\ WF_vars(SetBannedAppsClear)
    /\ WF_vars(SetBannedAppsCopy)
    /\ WF_vars(SetBannedAppsRelease)
    /\ WF_vars(NotifyCompare)
    /\ WF_vars(NotifyRelease)
    /\ SF_vars(SetBannedAppsLock)
    /\ SF_vars(NotifyAcquire)

SetBannedAppsHolds ==
    inFlight["SetBannedApps"] # << >> /\ inFlight["SetBannedApps"][1].i >= -1

NotifyHolds ==
    inFlight["ProcessNotify"] # << >> /\ "i" \in DOMAIN inFlight["ProcessNotify"][1]

\* C37: the mutex is owned by SetBannedApps exactly while a request is
\* between its acquisition and its release, by the launch check exactly
\* while a check is between its own, and by nobody otherwise (never by
\* both, and never after the owner has returned, whether the scan found a
\* match, found none or the request skipped entries); with the threads
\* scheduled fairly every SetBannedApps request that has passed its checks
\* and every launch check that has reached the mutex completes.
C37_LockReleasedAndLive ==
    /\ [](/\ BannedAppsLock = "SetBannedApps" <=> SetBannedAppsHolds
          /\ BannedAppsLock = "ProcessNotify" <=> NotifyHolds
          /\ BannedAppsLock \in { "free", "SetBannedApps", "ProcessNotify" })
    /\ (inFlight["SetBannedApps"] # << >>) ~> (inFlight["SetBannedApps"] = << >>)
    /\ (inFlight["ProcessNotify"] # << >>) ~> (inFlight["ProcessNotify"] = << >>)

\* a launch of b.exe that found the mutex held by a request has scanned
\* the new list to its second entry, been denied and returned: the mutex
\* is free and no request is in progress
C37_Witness ==
    /\ last.op = "TadProcessNotifyCallback"
    /\ "LockAtEntry" \in DOMAIN last
    /\ last.LockAtEntry = "SetBannedApps"
    /\ last.CreationStatus = "STATUS_ACCESS_DENIED"
    /\ BannedAppCount = 2
    /\ BannedAppsLock = "free"
    /\ inFlight["SetBannedApps"] = << >> /\ inFlight["ProcessNotify"] = << >>


(***************************************************************************)
(* The early returns of the file-system callback                           *)
(***************************************************************************)
\* the plain disposition with no buffer or with DeleteFile FALSE
PlainWithoutDelete(Data) ==
    /\ Data.FileInformationClass = "FileDispositionInformation"
    /\ Data.InfoBuffer = NULLBUF \/ ~Data.InfoBuffer[1].DeleteFile

\* C38: a delete or rename request whose name the filter manager cannot
\* resolve or cannot parse is passed through unchanged, whatever the file;
\* a plain disposition request whose delete flag is not set is passed
\* through without the name being asked for; an extended disposition
\* request has its name checked whatever its buffer holds, and is denied
\* on a protected name.
C38_FailsOpenOnTheName ==
    SetInformationDone
        => /\ (DeleteOrRename(last.Data) /\ ~NameResolved(last.Data))
                 => SetInformationPassed /\ last.NameQueried
           /\ PlainWithoutDelete(last.Data)
                 => SetInformationPassed /\ ~last.NameQueried
           /\ last.Data.FileInformationClass = "FileDispositionInformationEx"
                 => /\ last.NameQueried
                    /\ (NameResolved(last.Data)
                           /\ NamedProtected(last.Data.FinalComponent.Buffer))
                          => SetInformationDenied

\* an extended disposition whose buffer does not ask for a deletion has
\* been denied on TAD.RV.SYS
C38_Witness ==
    /\ SetInformationDone
    /\ last.Data.FileInformationClass = "FileDispositionInformationEx"
    /\ last.Data.InfoBuffer = << [DeleteFile |-> FALSE] >>
    /\ last.Data.FinalComponent.Buffer = << 84, 65, 68, 46, 82, 86, 46, 83, 89, 83 >>
    /\ SetInformationDenied

=============================================================================
